---- MODULE Spec2Model ----
(* Verification model of src/tasks.py: the task registry, the task       *)
(* variants' data loading and instance construction, and their metric    *)
(* reporting.  Each part of the program has its own variables and its    *)
(* own specification; a specification leaves the other parts idle.       *)
EXTENDS Integers, Sequences, FiniteSets, TLC

VARIABLES
    REGISTRY,       \* tasks.REGISTRY: name -> entry
    regLog,         \* history: the applications of register_task so far
    lastReturned,   \* what the last application of the decorator returned
    task,           \* one constructed task: class, name, val_metric, aggregators
    lastGet,        \* the most recent get_metrics call and what it returned
    prevGet,        \* the call before it, when no update came in between
    lastUpd,        \* the most recent update_diagnostic_metrics call: its batch, the aggregators before it
    ctask,          \* one task constructed over a corpus: class, files, loaded splits
    out,            \* the last operation on ctask and everything it returned or yielded
    coltask,        \* one columnar task: class, tag tables, the split it is given
    colit,          \* the iterator process_split returned for that split
    colinsts,       \* the Instances pulled from it so far
    ltask,          \* one columnar task under construction: class, the files it reads
    ldata,          \* its train/val/test_data_text, and what truncate did to them
    ftask,          \* one task over text files: class, the rows of its split files
    fop,            \* the operation that reads them: position, items, counters, outcome
    handles,        \* every file handle opened so far, open or closed
    built,          \* the last attempt to construct a task from its registry entry
    mrecord,        \* the record merge_preds works on, changed in place
    merged          \* the last call of merge_preds

regVars == <<REGISTRY, regLog, lastReturned>>

metVars == <<task, lastGet, prevGet, lastUpd>>

corpusVars == <<ctask, out>>

colVars == <<coltask, colit, colinsts>>

loadVars == <<ltask, ldata>>

fileVars == <<ftask, fop, handles>>

importVars == <<built>>

mergeVars == <<mrecord, merged>>

vars == <<regVars, metVars, corpusVars, colVars, loadVars, fileVars, importVars, mergeVars>>

\* the variables of the other parts, which an action of one part leaves alone
regOthers == <<metVars, corpusVars, colVars, loadVars, fileVars, importVars, mergeVars>>

metOthers == <<regVars, corpusVars, colVars, loadVars, fileVars, importVars, mergeVars>>

corpusOthers == <<regVars, metVars, colVars, loadVars, fileVars, importVars, mergeVars>>

colOthers == <<regVars, metVars, corpusVars, loadVars, fileVars, importVars, mergeVars>>

loadOthers == <<regVars, metVars, corpusVars, colVars, fileVars, importVars, mergeVars>>

fileOthers == <<regVars, metVars, corpusVars, colVars, loadVars, importVars, mergeVars>>

importOthers == <<metVars, corpusVars, colVars, loadVars, fileVars, mergeVars>>

mergeOthers == <<regVars, metVars, corpusVars, colVars, loadVars, fileVars, importVars>>

\* ---------------------------------------------------------------------
\* Generic helpers
\* ---------------------------------------------------------------------

Range(s) == { s[i] : i \in DOMAIN s }

Min(a, b) == IF a <= b THEN a ELSE b

Max(S) == CHOOSE x \in S : \A y \in S : y <= x

\* ---------------------------------------------------------------------
\* Task registry: register_task and REGISTRY
\* ---------------------------------------------------------------------

\* number of decorator applications explored
MaxRegs == 3

RegNames == {"reddit", "reddit_dummy", "edges-spr1"}
RegClasses == {"RedditTask", "EdgeProbingTask"}
RegPaths == {"Reddit_2008/", "edges/spr1"}
\* **kw as a function from option names to values; << >> is the empty dict
RegKws == { << >>, [label_file |-> "labels.txt"] }

\* mutant of RegEntry: the options are stored even when there are none
RegEntry_AlwaysTriple(cls, rel_path, kw) ==
    <<cls, rel_path, kw>>

\* entry = (cls, rel_path, kw) if kw else (cls, rel_path)
RegEntry(cls, rel_path, kw) ==
    IF DOMAIN kw # {} THEN <<cls, rel_path, kw>> ELSE <<cls, rel_path>>

RegInit ==
    /\ REGISTRY = << >>
    /\ regLog = << >>
    /\ lastReturned = "none"

RegIdle ==
    /\ REGISTRY = << >>
    /\ regLog = << >>
    /\ lastReturned = "none"

\* mutant of register_task: an existing entry is kept (first registration wins)
register_task_FirstWins(name, rel_path, kw, cls) ==
    /\ Len(regLog) < MaxRegs
    /\ REGISTRY' = [n \in (DOMAIN REGISTRY) \cup {name} |->
                      IF n \in DOMAIN REGISTRY THEN REGISTRY[n]
                      ELSE RegEntry(cls, rel_path, kw)]
    /\ regLog' = Append(regLog, [name |-> name, cls |-> cls,
                                 rel_path |-> rel_path, kw |-> kw])
    /\ lastReturned' = cls
    /\ UNCHANGED regOthers

\* mutant of register_task: the registry is rebuilt with the new entry only
register_task_Rebuild(name, rel_path, kw, cls) ==
    /\ Len(regLog) < MaxRegs
    /\ REGISTRY' = [n \in {name} |-> RegEntry(cls, rel_path, kw)]
    /\ regLog' = Append(regLog, [name |-> name, cls |-> cls,
                                 rel_path |-> rel_path, kw |-> kw])
    /\ lastReturned' = cls
    /\ UNCHANGED regOthers

\* register_task(name, rel_path, **kw)(cls): REGISTRY[name] = entry; return cls
register_task(name, rel_path, kw, cls) ==
    /\ Len(regLog) < MaxRegs
    /\ REGISTRY' = [n \in (DOMAIN REGISTRY) \cup {name} |->
                      IF n = name THEN RegEntry(cls, rel_path, kw) ELSE REGISTRY[n]]
    /\ regLog' = Append(regLog, [name |-> name, cls |-> cls,
                                 rel_path |-> rel_path, kw |-> kw])
    /\ lastReturned' = cls
    /\ UNCHANGED regOthers

\* a decorator applied to a class definition
Register ==
    \E name \in RegNames, rel_path \in RegPaths, kw \in RegKws, cls \in RegClasses :
        register_task(name, rel_path, kw, cls)

\* a decorator stacked on another: it is applied to what the one below returned
RegisterStacked ==
    /\ lastReturned # "none"
    /\ \E name \in RegNames, rel_path \in RegPaths, kw \in RegKws :
        register_task(name, rel_path, kw, lastReturned)

RegNext == Register \/ RegisterStacked

\* --- claims about the registry ---------------------------------------

\* the applications of register_task under name n, as positions of the history
RegAppsOf(n) == { i \in DOMAIN regLog : regLog[i].name = n }

\* the most recent application under name n
RegLastOf(n) == regLog[Max(RegAppsOf(n))]

\* C3: after any sequence of register_task applications, every application
\* went through without raising (each name applied is a key) and REGISTRY[name]
\* holds the class and path (and the options, when stored) of the most recent
\* application with that name.
C3_LastRegistrationWins ==
    \A n \in RegNames :
        IF RegAppsOf(n) = {} THEN n \notin DOMAIN REGISTRY
        ELSE /\ n \in DOMAIN REGISTRY
             /\ REGISTRY[n][1] = RegLastOf(n).cls
             /\ REGISTRY[n][2] = RegLastOf(n).rel_path
             /\ Len(REGISTRY[n]) = 3 => REGISTRY[n][3] = RegLastOf(n).kw
             /\ Len(REGISTRY[n]) = 2 => RegLastOf(n).kw = << >>

\* C3 witness: a name was registered twice, with two different classes, and
\* the registry holds the second one
C3_Witness ==
    \E i, j \in DOMAIN regLog :
        /\ i < j
        /\ regLog[i].name = regLog[j].name
        /\ regLog[i].cls # regLog[j].cls
        /\ RegAppsOf(regLog[j].name) = {i, j}
        /\ REGISTRY[regLog[j].name][1] = regLog[j].cls

\* C4 as stated: every entry is the triple (implementation, path, options),
\* with or without options.
C4_EntryIsTriple ==
    \A n \in DOMAIN REGISTRY :
        REGISTRY[n] = <<RegLastOf(n).cls, RegLastOf(n).rel_path, RegLastOf(n).kw>>

\* C4 amended: an entry registered with options is the triple (implementation,
\* path, options); an entry registered without options is the pair
\* (implementation, path).
C4_EntryTripleOrPair ==
    \A n \in DOMAIN REGISTRY :
        IF RegLastOf(n).kw # << >>
        THEN REGISTRY[n] = <<RegLastOf(n).cls, RegLastOf(n).rel_path, RegLastOf(n).kw>>
        ELSE REGISTRY[n] = <<RegLastOf(n).cls, RegLastOf(n).rel_path>>

\* C4 witness: the registry holds an entry registered with options and one
\* registered without
C4_Witness ==
    \E n, m \in DOMAIN REGISTRY :
        /\ RegLastOf(n).kw # << >> /\ Len(REGISTRY[n]) = 3
        /\ RegLastOf(m).kw = << >> /\ Len(REGISTRY[m]) = 2

\* what one application of the decorator may change
C5_Step ==
    regLog' # regLog =>
        LET call == regLog'[Len(regLog')] IN
        /\ DOMAIN REGISTRY \subseteq DOMAIN REGISTRY'
        /\ \A n \in DOMAIN REGISTRY : n # call.name => REGISTRY'[n] = REGISTRY[n]
        /\ DOMAIN REGISTRY' = DOMAIN REGISTRY \cup {call.name}
        /\ lastReturned' = call.cls
        \* stacked on one class under names all distinct: one entry per
        \* application, each with that class and its own path and options
        /\ (/\ \A i \in DOMAIN regLog' : regLog'[i].cls = call.cls
            /\ \A i, j \in DOMAIN regLog' : i # j => regLog'[i].name # regLog'[j].name)
           => /\ Cardinality(DOMAIN REGISTRY') = Len(regLog')
              /\ \A i \in DOMAIN regLog' :
                    /\ REGISTRY'[regLog'[i].name][1] = call.cls
                    /\ REGISTRY'[regLog'[i].name][2] = regLog'[i].rel_path
                    /\ regLog'[i].kw # << >> =>
                          REGISTRY'[regLog'[i].name][3] = regLog'[i].kw

\* C5: an application of register_task(name, ...) changes only REGISTRY[name]:
\* no key is removed, every other entry is unchanged, the class is returned
\* as it was given, and k stacked decorations with k distinct names on one
\* class leave k entries that refer to that class.
C5_OnlyNameChanges == [][C5_Step]_vars

\* C5 witness: three stacked decorations with three distinct names and different
\* paths on one class
C5_Witness ==
    /\ Len(regLog) = 3
    /\ Cardinality(DOMAIN REGISTRY) = 3
    /\ \A n \in DOMAIN REGISTRY : REGISTRY[n][1] = lastReturned
    /\ \E n, m \in DOMAIN REGISTRY : REGISTRY[n][2] # REGISTRY[m][2]

\* ---------------------------------------------------------------------
\* Metric aggregators (the metric primitive library the tasks compose)
\* ---------------------------------------------------------------------

\* observations the aggregators of one task hold at one time
MaxObs == 2

\* an aggregator: its kind and what it has accumulated; the confusion counts
\* serve the accuracy, F1 and correlation kinds, total/count serve Average.
\* kind "None" is the attribute set to None.
Fresh(kind) ==
    [kind |-> kind, tp |-> 0, fp |-> 0, fn |-> 0, tn |-> 0, total |-> 0, count |-> 0]

ConfKinds == {"CategoricalAccuracy", "BooleanAccuracy", "F1Measure",
              "Correlation", "FastMatthews"}

ConfObs == {"tp", "fp", "fn", "tn"}

AvgObs == {1, 2}

NObs(s) == s.tp + s.fp + s.fn + s.tn + s.count

\* integer square root
ISqrt(n) == CHOOSE r \in 0..n : r * r <= n /\ n < (r + 1) * (r + 1)

\* values are fixed-point, in hundredths
Ratio(a, b) == IF b = 0 THEN 0 ELSE (100 * a) \div b

Precision(s) == Ratio(s.tp, s.tp + s.fp)

Recall(s) == Ratio(s.tp, s.tp + s.fn)

F1(s) == IF Precision(s) + Recall(s) = 0 THEN 0
         ELSE (2 * Precision(s) * Recall(s)) \div (Precision(s) + Recall(s))

Accuracy(s) == Ratio(s.tp + s.tn, s.tp + s.fp + s.fn + s.tn)

\* the correlation of predictions and labels (Matthews' on the confusion
\* counts); 0 when undefined, as with nothing seen
Corr(s) ==
    LET num == s.tp * s.tn - s.fp * s.fn
        den == ISqrt((s.tp + s.fp) * (s.tp + s.fn) * (s.tn + s.fp) * (s.tn + s.fn))
    IN  IF den = 0 THEN 0
        ELSE IF num >= 0 THEN (100 * num) \div den ELSE 0 - ((100 * (0 - num)) \div den)

Mean(s) == Ratio(s.total, s.count)

\* aggregator(prediction, gold): accumulate one observation
ScorerUpdate(s, obs) ==
    IF s.kind = "Average" THEN [s EXCEPT !.total = @ + obs, !.count = @ + 1]
    ELSE [s EXCEPT ![obs] = @ + 1]

\* get_metric(reset): the value read, and the state after (zeroed when reset)
ScorerGet(s, reset) ==
    [value |-> CASE s.kind \in {"CategoricalAccuracy", "BooleanAccuracy"} -> Accuracy(s)
                 [] s.kind = "F1Measure" -> <<Precision(s), Recall(s), F1(s)>>
                 [] s.kind \in {"Correlation", "FastMatthews"} -> Corr(s)
                 [] s.kind = "Average" -> Mean(s),
     state |-> IF reset THEN Fresh(s.kind) ELSE s]

\* math.exp(x), kept symbolic
Exp(x) == <<"exp", x>>

\* ---------------------------------------------------------------------
\* Task variants: construction (name, val_metric, aggregators) and get_metrics
\* ---------------------------------------------------------------------

\* the names tasks are constructed under
TaskNames == {"sst", "mnli-alt"}

\* the four tag dimensions of the diagnostic task
DiagDims == {"lex_sem", "pr_ar_str", "logic", "knowledge"}

\* index -> tag tables of the diagnostic data, one per dimension, as the
\* diagnostic loader hands them over
DiagTableChoices ==
    { [d \in DiagDims |-> (0 :> "missing") @@ (1 :> "A")],
      [d \in DiagDims |-> IF d = "knowledge" THEN (1 :> "A")
                          ELSE (0 :> "missing") @@ (1 :> "A")],
      [d \in DiagDims |-> IF d = "lex_sem" THEN (0 :> "missing") @@ (1 :> "A") @@ (2 :> "B")
                          ELSE (0 :> "missing")] }

\* Task.__init__
Task_init(cls, name) ==
    [cls |-> cls, name |-> name, val_metric |-> "", val_metric_decreases |-> FALSE,
     scorers |-> << >>, tables |-> << >>]

\* self.<attr> = <kind>()
SetScorer(t, attr, kind) == [t EXCEPT !.scorers = (attr :> Fresh(kind)) @@ @]

\* self.val_metric = "%s_<key>" % self.name; self.val_metric_decreases = dec
SetValMetric(t, key, dec) ==
    [t EXCEPT !.val_metric = t.name \o "_" \o key, !.val_metric_decreases = dec]

SingleClassificationTask_init(cls, name) ==
    SetValMetric(SetScorer(SetScorer(Task_init(cls, name),
        "scorer1", "CategoricalAccuracy"), "scorer2", "None"), "accuracy", FALSE)

PairClassificationTask_init(cls, name) ==
    SetValMetric(SetScorer(SetScorer(Task_init(cls, name),
        "scorer1", "CategoricalAccuracy"), "scorer2", "None"), "accuracy", FALSE)

EdgeProbingTask_init(cls, name) ==
    SetValMetric(SetScorer(SetScorer(SetScorer(Task_init(cls, name),
        "mcc_scorer", "FastMatthews"), "acc_scorer", "BooleanAccuracy"),
        "f1_scorer", "F1Measure"), "f1", FALSE)

PairRegressionTask_init(cls, name) ==
    SetValMetric(SetScorer(SetScorer(Task_init(cls, name),
        "scorer1", "Average"), "scorer2", "None"), "mse", TRUE)

PairOrdinalRegressionTask_init(cls, name) ==
    SetValMetric(SetScorer(SetScorer(Task_init(cls, name),
        "scorer1", "Average"), "scorer2", "Correlation"), "1-mse", FALSE)

SequenceGenerationTask_init(cls, name) ==
    SetValMetric(SetScorer(SetScorer(Task_init(cls, name),
        "scorer1", "Average"), "scorer2", "None"), "bleu", FALSE)

LanguageModelingTask_init(cls, name) ==
    SetValMetric(SetScorer(SetScorer(SequenceGenerationTask_init(cls, name),
        "scorer1", "Average"), "scorer2", "None"), "perplexity", TRUE)

RedditTask_init(cls, name) ==
    SetValMetric(SetScorer(SetScorer(Task_init(cls, name),
        "scorer1", "Average"), "scorer2", "None"), "accuracy", FALSE)

RedditPairClassificationTask_init(cls, name) ==
    SetValMetric(SetScorer(PairClassificationTask_init(cls, name),
        "scorer2", "None"), "accuracy", FALSE)

CoLATask_init(cls, name) ==
    SetScorer(SetScorer(SetValMetric(SingleClassificationTask_init(cls, name),
        "mcc", FALSE), "scorer1", "Correlation"), "scorer2", "CategoricalAccuracy")

QQPTask_init(cls, name) ==
    SetValMetric(SetScorer(PairClassificationTask_init(cls, name),
        "scorer2", "F1Measure"), "acc_f1", FALSE)

MultiNLISingleGenreTask_init(cls, name) ==
    SetScorer(PairClassificationTask_init(cls, name), "scorer2", "None")

\* mutant of STSBTask_init: val_metric is left as the base class set it
STSBTask_init_KeepsMse(cls, name) ==
    SetScorer(SetScorer(PairRegressionTask_init(cls, name),
        "scorer1", "Correlation"), "scorer2", "Correlation")

STSBTask_init(cls, name) ==
    SetValMetric(SetScorer(SetScorer(PairRegressionTask_init(cls, name),
        "scorer1", "Correlation"), "scorer2", "Correlation"), "corr", FALSE)

\* the aggregators load_data_and_create_scorers creates for one dimension
DiagScorerAttrs(tables, d) ==
    {"scorer__" \o d} \cup
    {"scorer__" \o d \o "__" \o tables[d][ix] : ix \in DOMAIN tables[d] \ {0}}

MultiNLIDiagnosticTask_init(cls, name, tables) ==
    LET t == PairClassificationTask_init(cls, name)
        attrs == UNION {DiagScorerAttrs(tables, d) : d \in DiagDims}
    IN  [t EXCEPT !.tables = tables,
                  !.scorers = [a \in attrs |-> Fresh("Correlation")] @@ @]

MTTask_init(cls, name) ==
    SetValMetric(SetScorer(SetScorer(SetScorer(SequenceGenerationTask_init(cls, name),
        "scorer1", "Average"), "scorer2", "Average"), "scorer3", "Average"),
        "perplexity", TRUE)

Wiki103Classification_init(cls, name) ==
    SetValMetric(SetScorer(PairClassificationTask_init(cls, name),
        "scorer2", "None"), "accuracy", FALSE)

GroundedTask_init(cls, name) ==
    SetValMetric(SetScorer(SetScorer(Task_init(cls, name),
        "scorer1", "Average"), "scorer2", "None"), "metric", FALSE)

TaggingTask_init(cls, name) ==
    SetValMetric(SetScorer(Task_init(cls, name), "scorer1", "CategoricalAccuracy"),
                 "accuracy", FALSE)

\* the concrete classes, each with the constructor chain it runs
PlainClasses ==
    {"SSTTask", "CoLATask", "QQPTask", "MRPCTask", "MultiNLIFictionTask", "STSBTask",
     "SNLITask", "MultiNLITask", "JOCITask", "EdgeProbingTask", "WikiText103LMTask",
     "BWBLMTask", "RedditTask", "RedditPairClassificationTask",
     "MTDataPairClassificationTask", "MTDebug", "RedditSeq2SeqTask",
     "Wiki103Seq2SeqTask", "Wiki103Classification", "DisSentWikiBigFullTask",
     "WeakGroundedTask", "GroundedTask", "GroundedSWTask", "CCGTaggingTask",
     "RecastNERTask", "NLITypeProbingAltTask"}

Construct(cls, name) ==
    CASE cls \in {"SSTTask"} -> SingleClassificationTask_init(cls, name)
      [] cls = "CoLATask" -> CoLATask_init(cls, name)
      [] cls \in {"QQPTask", "MRPCTask"} -> QQPTask_init(cls, name)
      [] cls = "MultiNLIFictionTask" -> MultiNLISingleGenreTask_init(cls, name)
      [] cls = "STSBTask" -> STSBTask_init(cls, name)
      [] cls \in {"SNLITask", "MultiNLITask", "DisSentWikiBigFullTask", "WeakGroundedTask",
                  "RecastNERTask", "NLITypeProbingAltTask"} ->
             PairClassificationTask_init(cls, name)
      [] cls = "JOCITask" -> PairOrdinalRegressionTask_init(cls, name)
      [] cls = "EdgeProbingTask" -> EdgeProbingTask_init(cls, name)
      [] cls \in {"WikiText103LMTask", "BWBLMTask"} -> LanguageModelingTask_init(cls, name)
      [] cls = "RedditTask" -> RedditTask_init(cls, name)
      [] cls \in {"RedditPairClassificationTask", "MTDataPairClassificationTask"} ->
             RedditPairClassificationTask_init(cls, name)
      [] cls \in {"MTDebug", "RedditSeq2SeqTask", "Wiki103Seq2SeqTask"} ->
             MTTask_init(cls, name)
      [] cls = "Wiki103Classification" -> Wiki103Classification_init(cls, name)
      [] cls \in {"GroundedTask", "GroundedSWTask"} -> GroundedTask_init(cls, name)
      [] cls = "CCGTaggingTask" -> TaggingTask_init(cls, name)

\* --- get_metrics, one definition per implementation --------------------
\* each returns the dictionary and the aggregators as the call leaves them

\* SingleClassificationTask, PairClassificationTask, MultiNLISingleGenreTask,
\* RedditTask, RedditPairClassificationTask, TaggingTask
Accuracy_get_metrics(t, reset) ==
    LET acc == ScorerGet(t.scorers["scorer1"], reset) IN
    [metrics |-> ("accuracy" :> acc.value),
     scorers |-> [t.scorers EXCEPT !["scorer1"] = acc.state]]

\* recall is left out of the report
EdgeProbingTask_get_metrics_NoRecall(t, reset) ==
    LET mcc == ScorerGet(t.scorers["mcc_scorer"], reset)
        acc == ScorerGet(t.scorers["acc_scorer"], reset)
        prf == ScorerGet(t.scorers["f1_scorer"], reset)
    IN  [metrics |-> ("mcc" :> mcc.value) @@ ("acc" :> acc.value) @@
                     ("precision" :> prf.value[1]) @@ ("f1" :> prf.value[3]),
         scorers |-> [t.scorers EXCEPT !["mcc_scorer"] = mcc.state,
                                       !["acc_scorer"] = acc.state,
                                       !["f1_scorer"] = prf.state]]

EdgeProbingTask_get_metrics(t, reset) ==
    LET mcc == ScorerGet(t.scorers["mcc_scorer"], reset)
        acc == ScorerGet(t.scorers["acc_scorer"], reset)
        prf == ScorerGet(t.scorers["f1_scorer"], reset)
    IN  [metrics |-> ("mcc" :> mcc.value) @@ ("acc" :> acc.value) @@
                     ("precision" :> prf.value[1]) @@ ("recall" :> prf.value[2]) @@
                     ("f1" :> prf.value[3]),
         scorers |-> [t.scorers EXCEPT !["mcc_scorer"] = mcc.state,
                                       !["acc_scorer"] = acc.state,
                                       !["f1_scorer"] = prf.state]]

PairOrdinalRegressionTask_get_metrics(t, reset) ==
    LET mse == ScorerGet(t.scorers["scorer1"], reset)
        spearmanr == ScorerGet(t.scorers["scorer2"], reset)
    IN  [metrics |-> ("1-mse" :> 100 - mse.value) @@ ("mse" :> mse.value) @@
                     ("spearmanr" :> spearmanr.value),
         scorers |-> [t.scorers EXCEPT !["scorer1"] = mse.state,
                                       !["scorer2"] = spearmanr.state]]

LanguageModelingTask_get_metrics(t, reset) ==
    LET nll == ScorerGet(t.scorers["scorer1"], reset) IN
    [metrics |-> ("perplexity" :> Exp(nll.value)),
     scorers |-> [t.scorers EXCEPT !["scorer1"] = nll.state]]

CoLATask_get_metrics(t, reset) ==
    LET mcc == ScorerGet(t.scorers["scorer1"], reset)
        acc == ScorerGet(t.scorers["scorer2"], reset)
    IN  [metrics |-> ("mcc" :> mcc.value) @@ ("accuracy" :> acc.value),
         scorers |-> [t.scorers EXCEPT !["scorer1"] = mcc.state,
                                       !["scorer2"] = acc.state]]

\* mutant of QQPTask_get_metrics: the F1 aggregator is read without the reset flag
QQPTask_get_metrics_F1NotReset(t, reset) ==
    LET acc == ScorerGet(t.scorers["scorer1"], reset)
        prf == ScorerGet(t.scorers["scorer2"], FALSE)
    IN  [metrics |-> ("acc_f1" :> (acc.value + prf.value[3]) \div 2) @@
                     ("accuracy" :> acc.value) @@ ("f1" :> prf.value[3]) @@
                     ("precision" :> prf.value[1]) @@ ("recall" :> prf.value[2]),
         scorers |-> [t.scorers EXCEPT !["scorer1"] = acc.state,
                                       !["scorer2"] = prf.state]]

\* QQPTask, MRPCTask
QQPTask_get_metrics(t, reset) ==
    LET acc == ScorerGet(t.scorers["scorer1"], reset)
        prf == ScorerGet(t.scorers["scorer2"], reset)
    IN  [metrics |-> ("acc_f1" :> (acc.value + prf.value[3]) \div 2) @@
                     ("accuracy" :> acc.value) @@ ("f1" :> prf.value[3]) @@
                     ("precision" :> prf.value[1]) @@ ("recall" :> prf.value[2]),
         scorers |-> [t.scorers EXCEPT !["scorer1"] = acc.state,
                                       !["scorer2"] = prf.state]]

STSBTask_get_metrics(t, reset) ==
    LET pearsonr == ScorerGet(t.scorers["scorer1"], reset)
        spearmanr == ScorerGet(t.scorers["scorer2"], reset)
    IN  [metrics |-> ("corr" :> (pearsonr.value + spearmanr.value) \div 2) @@
                     ("pearsonr" :> pearsonr.value) @@ ("spearmanr" :> spearmanr.value),
         scorers |-> [t.scorers EXCEPT !["scorer1"] = pearsonr.state,
                                       !["scorer2"] = spearmanr.state]]

\* the key get_metrics reports the entry (index ix, tag) of dimension d under
DiagKey(tables, d, ix) == IF ix = 0 THEN d ELSE d \o "__" \o tables[d][ix]

MultiNLIDiagnosticTask_get_metrics(t, reset) ==
    LET keys == UNION { {DiagKey(t.tables, d, ix) : ix \in DOMAIN t.tables[d]} :
                        d \in DiagDims }
        read == {"scorer__" \o k : k \in keys}
    IN  [metrics |-> [k \in keys \cup {"accuracy"} |->
                        IF k = "accuracy" THEN 0
                        ELSE ScorerGet(t.scorers["scorer__" \o k], reset).value],
         scorers |-> [a \in DOMAIN t.scorers |->
                        IF a \in read THEN ScorerGet(t.scorers[a], reset).state
                        ELSE t.scorers[a]]]

MTTask_get_metrics(t, reset) ==
    LET avg_nll == ScorerGet(t.scorers["scorer1"], reset)
        unk_ratio_macroavg == ScorerGet(t.scorers["scorer3"], reset)
    IN  [metrics |-> ("perplexity" :> Exp(avg_nll.value)) @@ ("bleu_score" :> 0) @@
                     ("unk_ratio_macroavg" :> unk_ratio_macroavg.value),
         scorers |-> [t.scorers EXCEPT !["scorer1"] = avg_nll.state,
                                       !["scorer3"] = unk_ratio_macroavg.state]]

GroundedTask_get_metrics(t, reset) ==
    LET metric == ScorerGet(t.scorers["scorer1"], reset) IN
    [metrics |-> ("metric" :> metric.value),
     scorers |-> [t.scorers EXCEPT !["scorer1"] = metric.state]]

\* method resolution: the get_metrics a task of class t.cls runs
get_metrics(t, reset) ==
    CASE t.cls = "CoLATask" -> CoLATask_get_metrics(t, reset)
      [] t.cls \in {"QQPTask", "MRPCTask"} -> QQPTask_get_metrics(t, reset)
      [] t.cls = "STSBTask" -> STSBTask_get_metrics(t, reset)
      [] t.cls = "JOCITask" -> PairOrdinalRegressionTask_get_metrics(t, reset)
      [] t.cls = "EdgeProbingTask" -> EdgeProbingTask_get_metrics(t, reset)
      [] t.cls \in {"WikiText103LMTask", "BWBLMTask"} ->
             LanguageModelingTask_get_metrics(t, reset)
      [] t.cls \in {"MTDebug", "RedditSeq2SeqTask", "Wiki103Seq2SeqTask"} ->
             MTTask_get_metrics(t, reset)
      [] t.cls \in {"GroundedTask", "GroundedSWTask"} -> GroundedTask_get_metrics(t, reset)
      [] t.cls = "MultiNLIDiagnosticTask" -> MultiNLIDiagnosticTask_get_metrics(t, reset)
      [] OTHER -> Accuracy_get_metrics(t, reset)

\* --- update_diagnostic_metrics ----------------------------------------------

\* rows of a batch
MaxBatch == 2

\* the keys of the tag fields of a batch: one per dimension, one per tag
\* with a non-zero index
FieldKeys(tables, d) == {d} \cup {d \o "__" \o tables[d][ix] : ix \in DOMAIN tables[d] \ {0}}

\* batch[key] of one row that carries the tag indices tags[d] in dimension d
RowMask(tables, tags) ==
    [key \in UNION {FieldKeys(tables, d) : d \in DiagDims} |->
        IF \E d \in DiagDims :
              \/ key = d /\ tags[d] # {}
              \/ \E ix \in tags[d] : key = d \o "__" \o tables[d][ix]
        THEN 1 ELSE 0]

\* the rows a batch may hold: the model's verdict on the row (logits
\* against label) and its tag fields
BatchRows(tables) ==
    LET none == [d \in DiagDims |-> {}]
        one == [d \in DiagDims |-> IF d = "lex_sem" THEN {1} ELSE {}]
        all == [d \in DiagDims |-> DOMAIN tables[d] \ {0}]
    IN  {[obs |-> o, mask |-> RowMask(tables, tags)] : o \in {"tp", "fn"}, tags \in {none, one, all}}

\* batches of at most max rows
Batches(tables, max) == UNION {[1..n -> BatchRows(tables)] : n \in 1..max}

\* torch.nonzero(mask): the rows of the batch whose mask is set
indices_to_pull(batch, key) == SelectSeq(batch, LAMBDA row : row.mask[key] # 0)

\* scorer(sub_logits, sub_labels): the aggregator takes the rows in turn
Feed(s, rows) ==
    LET f[i \in 0..Len(rows)] == IF i = 0 THEN s ELSE ScorerUpdate(f[i - 1], rows[i].obs)
    IN  f[Len(rows)]

\* the aggregator is fed even when no row carries the tag
update_scores_for_tag_group_NoSkip(scorers, ix_to_tags_dic, tag_group, batch) ==
    LET RECURSIVE Over(_, _)
        Over(sc, ixs) ==
            IF ixs = {} THEN sc
            ELSE LET ix == CHOOSE x \in ixs : TRUE
                     key == IF ix = 0 THEN tag_group
                            ELSE tag_group \o "__" \o ix_to_tags_dic[ix]
                     scorer_str == "scorer__" \o key
                 IN  Over([sc EXCEPT ![scorer_str] = Feed(@, batch)], ixs \ {ix})
    IN  Over(scorers, DOMAIN ix_to_tags_dic)

\* MultiNLIDiagnosticTask.update_diagnostic_metrics.update_scores_for_tag_group
update_scores_for_tag_group(scorers, ix_to_tags_dic, tag_group, batch) ==
    LET RECURSIVE Over(_, _)
        Over(sc, ixs) ==
            IF ixs = {} THEN sc
            ELSE LET ix == CHOOSE x \in ixs : TRUE
                     key == IF ix = 0 THEN tag_group
                            ELSE tag_group \o "__" \o ix_to_tags_dic[ix]
                     scorer_str == "scorer__" \o key
                     pulled == indices_to_pull(batch, key)
                 IN  Over(IF Len(pulled) = 0 THEN sc
                          ELSE [sc EXCEPT ![scorer_str] = Feed(@, pulled)],
                          ixs \ {ix})
    IN  Over(scorers, DOMAIN ix_to_tags_dic)

\* MultiNLIDiagnosticTask.update_diagnostic_metrics: the aggregators after
update_diagnostic_metrics(t, batch) ==
    LET s1 == update_scores_for_tag_group(t.scorers, t.tables["lex_sem"], "lex_sem", batch)
        s2 == update_scores_for_tag_group(s1, t.tables["pr_ar_str"], "pr_ar_str", batch)
        s3 == update_scores_for_tag_group(s2, t.tables["logic"], "logic", batch)
    IN  update_scores_for_tag_group(s3, t.tables["knowledge"], "knowledge", batch)

\* --- the life of one task: updates and metric reads ---------------------

NoCall == [made |-> FALSE, reset |-> FALSE, result |-> << >>]

NoUpdate == [made |-> FALSE, batch |-> << >>, before |-> << >>]

MetInit ==
    /\ \/ \E cls \in PlainClasses, name \in TaskNames : task = Construct(cls, name)
       \/ \E name \in TaskNames, tables \in DiagTableChoices :
              task = MultiNLIDiagnosticTask_init("MultiNLIDiagnosticTask", name, tables)
    /\ lastGet = NoCall
    /\ prevGet = NoCall
    /\ lastUpd = NoUpdate

MetIdle ==
    /\ task = Task_init("none", "none")
    /\ lastGet = NoCall
    /\ prevGet = NoCall
    /\ lastUpd = NoUpdate

TaskObs(t) ==
    LET RECURSIVE Sum(_)
        Sum(S) == IF S = {} THEN 0
                  ELSE LET a == CHOOSE x \in S : TRUE IN NObs(t.scorers[a]) + Sum(S \ {a})
    IN  Sum(DOMAIN t.scorers)

\* the training / evaluation loop feeds one observation to one aggregator
UpdateScorer ==
    \E a \in DOMAIN task.scorers :
        /\ task.scorers[a].kind # "None"
        /\ TaskObs(task) < MaxObs
        /\ \E obs \in (IF task.scorers[a].kind = "Average" THEN AvgObs ELSE ConfObs) :
              task' = [task EXCEPT !.scorers[a] = ScorerUpdate(@, obs)]
        /\ lastGet' = NoCall
        /\ prevGet' = NoCall
        /\ lastUpd' = NoUpdate
        /\ UNCHANGED metOthers

\* task.get_metrics(reset)
GetMetrics ==
    \E reset \in BOOLEAN :
        LET r == get_metrics(task, reset) IN
        /\ task' = [task EXCEPT !.scorers = r.scorers]
        /\ lastGet' = [made |-> TRUE, reset |-> reset, result |-> r.metrics]
        /\ prevGet' = lastGet
        /\ lastUpd' = NoUpdate
        /\ UNCHANGED metOthers

\* task.update_diagnostic_metrics(logits, labels, batch)
UpdateDiagnosticMetrics ==
    /\ task.cls = "MultiNLIDiagnosticTask"
    /\ TaskObs(task) < MaxObs
    /\ \E batch \in Batches(task.tables, Min(MaxBatch, MaxObs - TaskObs(task))) :
          /\ task' = [task EXCEPT !.scorers = update_diagnostic_metrics(task, batch)]
          /\ lastUpd' = [made |-> TRUE, batch |-> batch, before |-> task.scorers]
    /\ lastGet' = NoCall
    /\ prevGet' = NoCall
    /\ UNCHANGED metOthers

MetNext == UpdateScorer \/ GetMetrics \/ UpdateDiagnosticMetrics

\* --- claims about val_metric and get_metrics ----------------------------

\* C1: for every concrete variant, in every state (before or after updates
\* and resets), val_metric is defined and equals "<task name>_<key>" for a key
\* of the dictionary get_metrics() returns, and of the one it last returned.
C1_ValMetricNamesReportedKey ==
    /\ task.val_metric # ""
    /\ \E k \in DOMAIN get_metrics(task, FALSE).metrics :
           task.val_metric = task.name \o "_" \o k
    /\ lastGet.made =>
           \E k \in DOMAIN lastGet.result : task.val_metric = task.name \o "_" \o k

\* C1 witness: a variant that overrides the base class's val_metric, after an
\* update and a resetting read that reported the key
C1_Witness ==
    /\ task.cls = "STSBTask"
    /\ task.val_metric = task.name \o "_corr"
    /\ prevGet.made /\ lastGet.made /\ lastGet.reset
    /\ prevGet.result["corr"] # 0
    /\ "corr" \in DOMAIN lastGet.result

\* C20: EdgeProbingTask.get_metrics returns all four composed values of
\* its three aggregators on every call: the returned dictionary has
\* exactly four entries.
C20_ExactlyFourEntries ==
    (task.cls = "EdgeProbingTask" /\ lastGet.made)
        => Cardinality(DOMAIN lastGet.result) = 4

\* C20, amended: EdgeProbingTask.get_metrics returns the five composed
\* values of its three aggregators on every call: the Matthews score, the
\* boolean accuracy, and the precision, recall and F1 of the binary F1
\* aggregator.
C20_ExactlyFiveEntries ==
    (task.cls = "EdgeProbingTask" /\ lastGet.made)
        => /\ DOMAIN lastGet.result = {"mcc", "acc", "precision", "recall", "f1"}
           /\ ~lastGet.reset =>
                 /\ lastGet.result["mcc"] = ScorerGet(task.scorers["mcc_scorer"], FALSE).value
                 /\ lastGet.result["acc"] = ScorerGet(task.scorers["acc_scorer"], FALSE).value
                 /\ <<lastGet.result["precision"], lastGet.result["recall"],
                      lastGet.result["f1"]>>
                        = ScorerGet(task.scorers["f1_scorer"], FALSE).value

C20_Witness ==
    /\ task.cls = "EdgeProbingTask"
    /\ lastGet.made
    /\ ~lastGet.reset
    /\ NObs(task.scorers["f1_scorer"]) > 0
    /\ lastGet.result["recall"] # 0

\* what update_diagnostic_metrics left in the aggregator of one field key,
\* against the rows of the batch whose mask for that key is set
DiagAggregatorRight(key) ==
    LET a == "scorer__" \o key
        pulled == indices_to_pull(lastUpd.batch, key)
    IN  task.scorers[a] = IF pulled = << >> THEN lastUpd.before[a]
                          ELSE Feed(lastUpd.before[a], pulled)

\* C23: in update_diagnostic_metrics, for every tag and every dimension
\* whose mask has no non-zero entry in the batch the aggregator is left as
\* it was and no error is raised, while an aggregator whose mask has a
\* non-zero entry receives exactly the logits and labels of the masked rows.
C23_OnlyMaskedRowsReachAggregators ==
    lastUpd.made
        => \A d \in DiagDims : \A key \in FieldKeys(task.tables, d) : DiagAggregatorRight(key)

\* C23 for the tags, and for the dimensions whose table has an entry for
\* index 0
C23_TagsAndIndexedDimensions ==
    lastUpd.made
        => \A d \in DiagDims : \A key \in FieldKeys(task.tables, d) :
              (key # d \/ 0 \in DOMAIN task.tables[d]) => DiagAggregatorRight(key)

\* the aggregators created at load time, those update_diagnostic_metrics
\* looks up, and those get_metrics looks up
DiagCreated(t) == UNION {DiagScorerAttrs(t.tables, d) : d \in DiagDims}

DiagLookedUp(t) ==
    UNION {{"scorer__" \o DiagKey(t.tables, d, ix) : ix \in DOMAIN t.tables[d]} : d \in DiagDims}

\* C24: in the diagnostic task, for every content of the four index-to-tag
\* tables, the aggregators created at load time are exactly those that
\* update_diagnostic_metrics can update and that get_metrics reports, and
\* no lookup refers to an aggregator that was not created.
C24_CreatedAreUpdatedAndReported ==
    task.cls = "MultiNLIDiagnosticTask"
        => /\ DiagLookedUp(task) = DiagCreated(task)
           /\ lastGet.made =>
                 {"scorer__" \o k : k \in DOMAIN lastGet.result \ {"accuracy"}} = DiagCreated(task)

\* C24, the half that holds: every aggregator looked up was created
C24_EveryLookupWasCreated ==
    task.cls = "MultiNLIDiagnosticTask"
        => /\ DiagLookedUp(task) \subseteq DiagCreated(task)
           /\ DiagCreated(task) \subseteq DOMAIN task.scorers
           /\ lastGet.made =>
                 {"scorer__" \o k : k \in DOMAIN lastGet.result \ {"accuracy"}}
                     \subseteq DiagCreated(task)

\* keys that are not accuracy, F1 or correlation entries
OtherKeys == {"mse", "1-mse", "perplexity", "bleu", "bleu_score",
              "unk_ratio_macroavg", "metric"}

\* C7: get_metrics(reset=True) followed by get_metrics(reset=True) with no
\* update in between: the second dictionary's accuracy / F1 / correlation
\* entries are the empty-state value 0, for every variant.
C7_SecondResetReadIsEmpty ==
    (prevGet.made /\ prevGet.reset /\ lastGet.made /\ lastGet.reset) =>
        \A k \in DOMAIN lastGet.result \ OtherKeys : lastGet.result[k] = 0

\* C7 witness: the first of the two reads reported a non-zero entry and the
\* second reports the empty-state value for it
C7_Witness ==
    /\ prevGet.made /\ prevGet.reset /\ lastGet.made /\ lastGet.reset
    /\ \E k \in DOMAIN lastGet.result \ OtherKeys :
           prevGet.result[k] # 0 /\ lastGet.result[k] = 0

\* the aggregators the task owns: every scorer attribute that is not None
OwnedScorers(t) == {a \in DOMAIN t.scorers : t.scorers[a].kind # "None"}

\* C28: for every task variant, get_metrics(reset=True) resets every
\* aggregator the task owns: after the call, following any sequence of
\* updates, each of the task's aggregators (scorer1, scorer2, scorer3 and any
\* per-tag or per-dimension scorer) is in its empty state.
C28_ResetEmptiesEveryAggregator ==
    (lastGet.made /\ lastGet.reset) =>
        \A a \in OwnedScorers(task) : task.scorers[a] = Fresh(task.scorers[a].kind)

\* C28 for the variants whose get_metrics reads every aggregator the task
\* owns: all but the translation tasks and the diagnostic task
C28_ResetEmptiesEveryAggregatorRead ==
    (lastGet.made /\ lastGet.reset
       /\ task.cls \notin {"MTDebug", "RedditSeq2SeqTask", "Wiki103Seq2SeqTask",
                           "MultiNLIDiagnosticTask"}) =>
        \A a \in OwnedScorers(task) : task.scorers[a] = Fresh(task.scorers[a].kind)

\* ---------------------------------------------------------------------
\* Tasks that read their corpus from files: text files streamed row by
\* row, and the edge-probing JSON record files
\* ---------------------------------------------------------------------

\* rows of a split's file
MaxRows == 2

\* files_by_split, in the order the dictionaries are built
Splits == <<"train", "val", "test">>

\* split.startswith("test"), over the split names the tasks use
StartsWithTest(split) == split \in {"test"}

SOS_TOK == "<SOS>"

EOS_TOK == "<EOS>"

START_SYMBOL == "@start@"

END_SYMBOL == "@end@"

UNK_TOK_ALLENNLP == "@@UNKNOWN@@"

UNK_TOK_ATOMIC == "UNKNOWN"

\* max_seq_len values tasks are constructed with
MaxSeqLens == {3, 4}

\* [F(s[i]) for i in order if P(s[i])]
MapFilter(s, P(_), F(_)) ==
    LET f[i \in 0..Len(s)] ==
            IF i = 0 THEN << >>
            ELSE IF P(s[i]) THEN Append(f[i - 1], F(s[i])) ELSE f[i - 1]
    IN  f[Len(s)]

\* the concatenation of a sequence of sequences
Flatten(ss) ==
    LET f[i \in 0..Len(ss)] == IF i = 0 THEN << >> ELSE f[i - 1] \o ss[i]
    IN  f[Len(ss)]

\* A row of a text file is kept as row.strip().split('\t') gives it: a
\* sequence of fields, each field a sequence of words; '' is the field << >>
\* and a blank row is <<'' >>.  The row as one string is its fields' words.
BlankRow == << << >> >>

RowText(row) == Flatten(row)

\* utils.process_sentence: tokenize, cut to max_seq_len - 2 tokens, wrap
process_sentence(words, max_seq_len, sos_tok, eos_tok) ==
    <<sos_tok>> \o SubSeq(words, 1, Min(Len(words), max_seq_len - 2)) \o <<eos_tok>>

_atomic_tokenize(words, atomic_tok, nonatomic_toks, max_seq_len) ==
    LET replaced == [i \in DOMAIN words |->
                        IF words[i] \in Range(nonatomic_toks) THEN atomic_tok ELSE words[i]]
        sent == process_sentence(replaced, max_seq_len, SOS_TOK, EOS_TOK)
    IN  [i \in DOMAIN sent |-> IF sent[i] = atomic_tok THEN nonatomic_toks[1] ELSE sent[i]]

\* --- load_data of the streaming variants: the items one pass yields -----

LanguageModelingTask_load_data(file, max_seq_len) ==
    MapFilter(file, LAMBDA row : RowText(row) # << >>,
              LAMBDA row : process_sentence(RowText(row), max_seq_len, SOS_TOK, EOS_TOK))

\* number of "=" tokens of a sentence
CountEq(sent) == Cardinality({i \in DOMAIN sent : sent[i] = "="})

\* len(toks): the characters of the stripped row (one per word character,
\* one per separator)
WordLen(w) == IF w = "<unk>" THEN 5 ELSE 1

RowChars(words) ==
    LET f[i \in 0..Len(words)] == IF i = 0 THEN 0 ELSE f[i - 1] + WordLen(words[i])
    IN  IF words = << >> THEN 0 ELSE f[Len(words)] + Len(words) - 1

\* WikiTextLMTask.load_data, Wiki103Classification.load_data
WikiTextLMTask_load_data(file, max_seq_len, min_seq_len) ==
    LET sentOf(row) == _atomic_tokenize(RowText(row), UNK_TOK_ATOMIC,
                                        <<UNK_TOK_ALLENNLP, "<unk>">>, max_seq_len)
    IN  MapFilter(file,
                  LAMBDA row : /\ RowText(row) # << >>
                               /\ ~(CountEq(sentOf(row)) >= 2 \/ RowChars(RowText(row)) < min_seq_len + 2),
                  sentOf)

\* RedditTask.load_data, RedditPairClassificationTask.load_data
RedditTask_load_data(file, max_seq_len) ==
    MapFilter(file,
              LAMBDA row : ~(Len(row) < 4 \/ row[3] = << >> \/ row[4] = << >>),
              LAMBDA row : <<process_sentence(row[3], max_seq_len, SOS_TOK, EOS_TOK),
                             process_sentence(row[4], max_seq_len, SOS_TOK, EOS_TOK), 1>>)

MTDataPairClassificationTask_load_data(file, max_seq_len) ==
    MapFilter(file,
              LAMBDA row : ~(Len(row) < 2 \/ row[1] = << >> \/ row[2] = << >>),
              LAMBDA row : <<process_sentence(row[1], max_seq_len, SOS_TOK, EOS_TOK),
                             process_sentence(row[2], max_seq_len, SOS_TOK, EOS_TOK), 1>>)

MTTask_load_data(file, max_seq_len) ==
    MapFilter(file,
              LAMBDA row : ~(Len(row) < 2 \/ row[1] = << >> \/ row[2] = << >>),
              LAMBDA row : <<process_sentence(row[1], max_seq_len, SOS_TOK, EOS_TOK),
                             process_sentence(row[2], max_seq_len, START_SYMBOL, END_SYMBOL)>>)

RedditSeq2SeqTask_load_data(file, max_seq_len) ==
    MapFilter(file,
              LAMBDA row : ~(Len(row) < 4 \/ row[3] = << >> \/ row[4] = << >>),
              LAMBDA row : <<process_sentence(row[3], max_seq_len, SOS_TOK, EOS_TOK),
                             process_sentence(row[4], max_seq_len, START_SYMBOL, END_SYMBOL)>>)

Wiki103Seq2SeqTask_load_data(file, max_seq_len) ==
    MapFilter(file, LAMBDA row : RowText(row) # << >>,
              LAMBDA row : <<_atomic_tokenize(RowText(row), UNK_TOK_ATOMIC,
                                              <<UNK_TOK_ALLENNLP, "<unk>">>, max_seq_len),
                             << >> >>)

\* int(row[2]) of a one-word field
IntOf(field) == CASE field = <<"1">> -> 1 [] field = <<"3">> -> 3

DisSentTask_load_data(file, max_seq_len) ==
    MapFilter(file,
              LAMBDA row : ~(Len(row) # 3 \/ ~(row[1] # << >> /\ row[2] # << >> /\ row[3] # << >>)),
              LAMBDA row : <<process_sentence(row[1], max_seq_len, SOS_TOK, EOS_TOK),
                             process_sentence(row[2], max_seq_len, SOS_TOK, EOS_TOK),
                             IntOf(row[3])>>)

\* --- edge probing: records of a JSON file ------------------------------

\* not record.get('targets', None)
NoTargets(record) == ~("targets" \in DOMAIN record) \/ record.targets = << >>

_stream_records_KeepsEmpty(file) ==
    MapFilter(file, LAMBDA record : "targets" \in DOMAIN record, LAMBDA record : record)

_stream_records(file) ==
    MapFilter(file, LAMBDA record : ~NoTargets(record), LAMBDA record : record)

\* EdgeProbingTask.load_data: every split's records, as lists
EdgeProbingTask_load_data(files) == [split \in DOMAIN files |-> _stream_records(files[split])]

\* the end of the span is left exclusive
_make_span_field_EndExclusive(s, offset) == <<s[1] + offset, s[2] + offset>>

\* EdgeProbingTask._make_span_field: SpanField(start, end), both inclusive
_make_span_field(s, offset) == <<s[1] + offset, s[2] - 1 + offset>>

make_instance(record, idx, single_sided) ==
    LET tokens == <<SOS_TOK>> \o record.text \o <<EOS_TOK>>
        span1s == [i \in DOMAIN record.targets |-> _make_span_field(record.targets[i].span1, 1)]
        span2s == [i \in DOMAIN record.targets |-> _make_span_field(record.targets[i].span2, 1)]
        labels == [i \in DOMAIN record.targets |-> <<record.targets[i].label>>]
    IN  IF single_sided
        THEN [idx |-> idx, input1 |-> tokens, span1s |-> span1s, labels |-> labels]
        ELSE [idx |-> idx, input1 |-> tokens, span1s |-> span1s, span2s |-> span2s,
              labels |-> labels]

\* --- the corpus a task is constructed over -----------------------------

StreamClasses ==
    {"LanguageModelingTask", "WikiTextLMTask", "RedditTask", "RedditPairClassificationTask",
     "MTDataPairClassificationTask", "MTTask", "RedditSeq2SeqTask", "Wiki103Classification",
     "Wiki103Seq2SeqTask", "DisSentTask"}

\* get_sentences yields each loaded sentence / both sentences of each
\* loaded triple / each loaded item as it is
YieldsSentence == {"LanguageModelingTask", "WikiTextLMTask", "Wiki103Classification"}

YieldsBoth ==
    {"RedditTask", "RedditPairClassificationTask", "MTDataPairClassificationTask", "DisSentTask"}

YieldsItem == {"MTTask", "RedditSeq2SeqTask", "Wiki103Seq2SeqTask"}

EdgeTarget1 == [span1 |-> <<0, 1>>, span2 |-> <<1, 2>>, label |-> "L1"]

EdgeTarget2 == [span1 |-> <<1, 2>>, span2 |-> <<0, 2>>, label |-> "L2"]

\* rows (records) a file of the task's format may hold
RowChoices(cls) ==
    CASE cls = "LanguageModelingTask" ->
            {BlankRow, << <<"a", "b">> >>, << <<"b">> >>}
      [] cls \in {"WikiTextLMTask", "Wiki103Classification"} ->
            {BlankRow, << <<"a", "<unk>">> >>, << <<"=", "a", "=">> >>, << <<"b">> >>}
      [] cls = "Wiki103Seq2SeqTask" ->
            {BlankRow, << <<"a", "<unk>">> >>, << <<"=", "a", "=">> >>}
      [] cls \in {"RedditTask", "RedditPairClassificationTask", "RedditSeq2SeqTask"} ->
            {<< <<"x">>, <<"y">>, <<"a", "b">>, <<"b">> >>,
             << <<"x">>, <<"y">>, << >>, <<"b">> >>,
             << <<"a">>, <<"b">> >>}
      [] cls \in {"MTDataPairClassificationTask", "MTTask"} ->
            {<< <<"a", "b">>, <<"b">> >>, << <<"b">>, <<"a">> >>, << <<"a">> >>}
      [] cls = "DisSentTask" ->
            {<< <<"a", "b">>, <<"b">>, <<"1">> >>, << <<"b">>, <<"a">>, <<"3">> >>,
             << <<"x">>, <<"y">>, <<"a">>, <<"b">> >>}
      [] cls = "EdgeProbingTask" ->
            {[text |-> <<"a", "b">>, targets |-> <<EdgeTarget1>>],
             [text |-> <<"b", "a">>, targets |-> <<EdgeTarget2, EdgeTarget1>>],
             [text |-> <<"b">>, targets |-> << >>],
             [text |-> <<"a">>]}

\* files of at most n rows
FilesUpTo(cls, n) == UNION {[1..k -> RowChoices(cls)] : k \in 0..n}

\* the three files of a task: a train file, and a short val and test file
FileSets(cls) ==
    {[train |-> tr, val |-> va, test |-> te] :
        tr \in FilesUpTo(cls, MaxRows),
        va \in {<< >>} \cup {<<r>> : r \in RowChoices(cls)},
        te \in {<< >>} \cup {<<r>> : r \in RowChoices(cls)}}

\* LanguageModelingTask.__init__ .. DisSentTask.__init__: what a streaming
\* task keeps of its corpus
StreamTask_init(cls, max_seq_len, files) ==
    [cls |-> cls, max_seq_len |-> max_seq_len, min_seq_len |-> 0, files |-> files,
     iters |-> << >>, single_sided |-> FALSE]

\* max_targ_v_size of the MT / seq2seq variants
TargVSizes == {0, 2, 5}

\* MTTask.__init__: also keeps max_targ_v_size
MTTask_corpus_init(cls, max_seq_len, max_targ_v_size, files) ==
    [cls |-> cls, max_seq_len |-> max_seq_len, min_seq_len |-> 0, files |-> files,
     iters |-> << >>, single_sided |-> FALSE, max_targ_v_size |-> max_targ_v_size]

\* EdgeProbingTask.__init__ (corpus part): the splits are loaded at once
EdgeTask_init(max_seq_len, files, single_sided) ==
    [cls |-> "EdgeProbingTask", max_seq_len |-> max_seq_len, min_seq_len |-> 0,
     files |-> files, iters |-> EdgeProbingTask_load_data(files),
     single_sided |-> single_sided]

load_data(t, file) ==
    CASE t.cls = "LanguageModelingTask" -> LanguageModelingTask_load_data(file, t.max_seq_len)
      [] t.cls \in {"WikiTextLMTask", "Wiki103Classification"} ->
            WikiTextLMTask_load_data(file, t.max_seq_len, t.min_seq_len)
      [] t.cls \in {"RedditTask", "RedditPairClassificationTask"} ->
            RedditTask_load_data(file, t.max_seq_len)
      [] t.cls = "MTDataPairClassificationTask" ->
            MTDataPairClassificationTask_load_data(file, t.max_seq_len)
      [] t.cls = "MTTask" -> MTTask_load_data(file, t.max_seq_len)
      [] t.cls = "RedditSeq2SeqTask" -> RedditSeq2SeqTask_load_data(file, t.max_seq_len)
      [] t.cls = "Wiki103Seq2SeqTask" -> Wiki103Seq2SeqTask_load_data(file, t.max_seq_len)
      [] t.cls = "DisSentTask" -> DisSentTask_load_data(file, t.max_seq_len)

get_split_text(t, split) ==
    IF t.cls = "EdgeProbingTask" THEN t.iters[split] ELSE load_data(t, t.files[split])

get_num_examples(split_text) == Len(split_text)

\* --- get_sentences ------------------------------------------------------

\* One yielded value, with the split it was read from; type is the Python
\* type of the value: a "list" of tokens or a "tuple" of token lists.
Yielded(split, type, value) == [from |-> split, type |-> type, sent |-> value]

\* what get_sentences yields for the items of one split
YieldFrom(cls, split, items) ==
    CASE cls \in YieldsSentence ->
            [i \in DOMAIN items |-> Yielded(split, "list", items[i])]
      [] cls \in YieldsBoth ->
            Flatten([i \in DOMAIN items |->
                        <<Yielded(split, "list", items[i][1]),
                          Yielded(split, "list", items[i][2])>>])
      [] cls \in YieldsItem ->
            [i \in DOMAIN items |-> Yielded(split, "tuple", items[i])]
      [] cls = "EdgeProbingTask" ->
            [i \in DOMAIN items |-> Yielded(split, "list", items[i].text)]

get_sentences(t) ==
    Flatten([k \in DOMAIN Splits |->
                IF StartsWithTest(Splits[k]) THEN << >>
                ELSE YieldFrom(t.cls, Splits[k], get_split_text(t, Splits[k]))])

\* --- get_all_labels -------------------------------------------------------

\* the words of a sequence of sentences, in reading order
WordsOf(sents) == Flatten(sents)

\* collections.Counter fed word by word: its keys in insertion order
CounterKeys(words) ==
    LET f[i \in 0..Len(words)] ==
            IF i = 0 THEN << >>
            ELSE IF words[i] \in Range(f[i - 1]) THEN f[i - 1] ELSE Append(f[i - 1], words[i])
    IN  f[Len(words)]

\* word2freq[word]
Freq(words, w) == Cardinality({i \in DOMAIN words : words[i] = w})

\* Counter.most_common(n): the keys by descending count, keys of equal
\* count in insertion order, the first n of them
most_common(words, n) ==
    LET keys == CounterKeys(words)
        before(i, j) == \/ Freq(words, keys[i]) > Freq(words, keys[j])
                        \/ Freq(words, keys[i]) = Freq(words, keys[j]) /\ i < j
        rank(j) == 1 + Cardinality({i \in DOMAIN keys : before(i, j)})
        sorted == [r \in DOMAIN keys |-> keys[CHOOSE j \in DOMAIN keys : rank(j) = r]]
    IN  SubSeq(sorted, 1, Min(n, Len(keys)))

\* the target sentences load_data yields for the named splits
TargetSentences(t, splits) ==
    Flatten([k \in DOMAIN splits |->
                LET items == load_data(t, t.files[splits[k]])
                IN  [i \in DOMAIN items |-> items[i][2]]])

\* every split is counted
get_all_labels_WithTest(t) ==
    most_common(WordsOf(TargetSentences(t, Splits)), t.max_targ_v_size)

\* MTTask.get_all_labels
get_all_labels(t) ==
    most_common(WordsOf(TargetSentences(t, <<"train", "val">>)), t.max_targ_v_size)

\* --- process_split -------------------------------------------------------

LanguageModelingTask_make_instance_NoWrap(sent) ==
    [input |-> sent,
     targs |-> SubSeq(sent, 2, Len(sent)) \o <<sent[Len(sent)]>>,
     targs_b |-> <<sent[1]>> \o SubSeq(sent, 1, Len(sent) - 1)]

LanguageModelingTask_make_instance(sent) ==
    [input |-> sent,
     targs |-> SubSeq(sent, 2, Len(sent)) \o <<sent[1]>>,
     targs_b |-> <<sent[Len(sent)]>> \o SubSeq(sent, 1, Len(sent) - 1)]

LanguageModelingTask_process_split(split) ==
    [i \in DOMAIN split |-> LanguageModelingTask_make_instance(split[i])]

\* RedditTask, RedditPairClassificationTask, DisSentTask
RedditTask_process_split(split) ==
    [i \in DOMAIN split |->
        [input1 |-> split[i][1], input2 |-> split[i][2], labels |-> split[i][3]]]

MTTask_process_split(split) ==
    [i \in DOMAIN split |-> [inputs |-> split[i][1], targs |-> split[i][2]]]

Wiki103Classification_process_split(split) ==
    [i \in 1..(Len(split) - 1) |->
        [input1 |-> split[i], input2 |-> split[i + 1], labels |-> 1]]

Wiki103Seq2SeqTask_process_split(split) ==
    [i \in 1..(Len(split) - 1) |->
        [inputs |-> split[i][1], targs |-> split[i + 1][1]]]

\* map(_map_fn, records, itertools.count())
EdgeProbingTask_process_split(records, single_sided) ==
    [i \in DOMAIN records |-> make_instance(records[i], i - 1, single_sided)]

process_split(t, split) ==
    CASE t.cls \in {"LanguageModelingTask", "WikiTextLMTask"} ->
            LanguageModelingTask_process_split(split)
      [] t.cls \in {"RedditTask", "RedditPairClassificationTask",
                    "MTDataPairClassificationTask", "DisSentTask"} ->
            RedditTask_process_split(split)
      [] t.cls \in {"MTTask", "RedditSeq2SeqTask"} -> MTTask_process_split(split)
      [] t.cls = "Wiki103Classification" -> Wiki103Classification_process_split(split)
      [] t.cls = "Wiki103Seq2SeqTask" -> Wiki103Seq2SeqTask_process_split(split)
      [] t.cls = "EdgeProbingTask" -> EdgeProbingTask_process_split(split, t.single_sided)

\* --- state machine --------------------------------------------------------

NoOut == [op |-> "none", split |-> "none", value |-> << >>]

CorpusInit ==
    /\ ctask \in
          UNION {{StreamTask_init(cls, msl, files) :
                      msl \in MaxSeqLens, files \in FileSets(cls)} :
                 cls \in StreamClasses \ YieldsItem}
          \cup
          UNION {{MTTask_corpus_init(cls, msl, mtvs, files) :
                      msl \in MaxSeqLens, mtvs \in TargVSizes, files \in FileSets(cls)} :
                 cls \in YieldsItem}
          \cup
          {EdgeTask_init(msl, files, ss) :
              msl \in MaxSeqLens, files \in FileSets("EdgeProbingTask"), ss \in BOOLEAN}
    /\ out = NoOut

CorpusIdle ==
    /\ ctask = [cls |-> "none"]
    /\ out = NoOut

\* the caller drains task.get_sentences()
GetSentences ==
    /\ out' = [op |-> "get_sentences", split |-> "none", value |-> get_sentences(ctask)]
    /\ UNCHANGED <<ctask, corpusOthers>>

\* the caller drains task.get_split_text(split)
GetSplitText ==
    \E k \in DOMAIN Splits :
        /\ out' = [op |-> "get_split_text", split |-> Splits[k],
                   value |-> get_split_text(ctask, Splits[k])]
        /\ UNCHANGED <<ctask, corpusOthers>>

\* task.get_num_examples(task.get_split_text(split)), on the list-valued split
GetNumExamples ==
    \E k \in DOMAIN Splits :
        /\ ctask.cls = "EdgeProbingTask"
        /\ out' = [op |-> "get_num_examples", split |-> Splits[k],
                   value |-> get_num_examples(get_split_text(ctask, Splits[k]))]
        /\ UNCHANGED <<ctask, corpusOthers>>

\* the caller drains task.process_split(task.get_split_text(split), indexers)
ProcessSplit ==
    \E k \in DOMAIN Splits :
        /\ out' = [op |-> "process_split", split |-> Splits[k],
                   value |-> process_split(ctask, get_split_text(ctask, Splits[k]))]
        /\ UNCHANGED <<ctask, corpusOthers>>

\* task.get_all_labels()
GetAllLabels ==
    /\ ctask.cls \in YieldsItem
    /\ out' = [op |-> "get_all_labels", split |-> "none", value |-> get_all_labels(ctask)]
    /\ UNCHANGED <<ctask, corpusOthers>>

CorpusNext == GetSentences \/ GetSplitText \/ GetNumExamples \/ ProcessSplit \/ GetAllLabels

\* --- claims about the corpus tasks ---------------------------------------

CorpusClasses == StreamClasses \cup {"EdgeProbingTask"}

NonTestSplits == {s \in Range(Splits) : ~StartsWithTest(s)}

\* the sentences of one loaded item of a split: the token lists it holds
ItemSentences(cls, item) ==
    CASE cls \in YieldsSentence -> {item}
      [] cls \in YieldsBoth -> {item[1], item[2]}
      [] cls \in {"MTTask", "RedditSeq2SeqTask"} -> {item[1], item[2]}
      [] cls = "Wiki103Seq2SeqTask" -> {item[1]}
      [] cls = "EdgeProbingTask" -> {item.text}

SplitSentences(t, split) ==
    LET items == get_split_text(t, split)
    IN  UNION {ItemSentences(t.cls, items[i]) : i \in DOMAIN items}

\* get_sentences yielded the token list sent, read from split
YieldedSentence(split, sent) ==
    \E i \in DOMAIN out.value :
        /\ out.value[i].from = split
        /\ out.value[i].type = "list"
        /\ out.value[i].sent = sent

\* C2, first half: get_sentences never yields anything read from a split
\* whose name begins with "test".
C2_NothingFromTest ==
    (ctask.cls \in CorpusClasses /\ out.op = "get_sentences")
        => \A i \in DOMAIN out.value : ~StartsWithTest(out.value[i].from)

\* C2: for every streamed variant and for edge probing, get_sentences yields
\* no sentence read from a split whose name begins with "test", and yields
\* every sentence of every other split.
C2_TestExcludedOthersYielded ==
    (ctask.cls \in CorpusClasses /\ out.op = "get_sentences")
        => /\ \A i \in DOMAIN out.value : ~StartsWithTest(out.value[i].from)
           /\ \A split \in NonTestSplits :
                 \A sent \in SplitSentences(ctask, split) : YieldedSentence(split, sent)

\* the non-blank rows of a file whose surface form has fewer than two "="
WikiUnmarked(file) ==
    SelectSeq(file, LAMBDA row : RowText(row) # << >> /\ CountEq(RowText(row)) < 2)

\* C21: in the WikiText loaders a non-blank line is filtered out if and
\* only if its surface form contains two or more "=" characters; every
\* other non-blank line yields exactly one sentence.
C21_FilteredIffTwoEquals ==
    (ctask.cls \in {"WikiTextLMTask", "Wiki103Classification"} /\ out.op = "get_split_text")
        => LET kept == WikiUnmarked(ctask.files[out.split])
           IN  out.value = [i \in DOMAIN kept |->
                               _atomic_tokenize(RowText(kept[i]), UNK_TOK_ATOMIC,
                                                <<UNK_TOK_ALLENNLP, "<unk>">>,
                                                ctask.max_seq_len)]

\* C21 restricted to lines of at least two characters read with a
\* max_seq_len that truncates nothing
C21_FilteredIffTwoEqualsLongLines ==
    (/\ ctask.cls \in {"WikiTextLMTask", "Wiki103Classification"}
     /\ out.op = "get_split_text"
     /\ \A i \in DOMAIN ctask.files[out.split] :
           LET words == RowText(ctask.files[out.split][i])
           IN  words = << >> \/ (RowChars(words) >= 2 /\ Len(words) <= ctask.max_seq_len - 2))
        => Len(out.value) = Len(WikiUnmarked(ctask.files[out.split]))

\* C22: MTTask.get_all_labels returns target-side words counted over the
\* train and validation files only (a word that occurs only in the test
\* file is never returned), ordered by descending frequency, and the list
\* has length min(max_targ_v_size, number of distinct target words).
C22_LabelsAreTopTrainValTargetWords ==
    (ctask.cls \in YieldsItem /\ out.op = "get_all_labels")
        => LET words == WordsOf(TargetSentences(ctask, <<"train", "val">>))
               labels == out.value
           IN  /\ \A i \in DOMAIN labels : labels[i] \in Range(words)
               /\ \A i, j \in DOMAIN labels : i < j =>
                     /\ labels[i] # labels[j]
                     /\ Freq(words, labels[i]) >= Freq(words, labels[j])
               /\ \A w \in Range(words) \ Range(labels) :
                     \A i \in DOMAIN labels : Freq(words, labels[i]) >= Freq(words, w)
               /\ Len(labels) = Min(ctask.max_targ_v_size, Cardinality(Range(words)))

\* C22 witness: the test file has a target word that train and val lack,
\* and the size limit cuts the list
C22_Witness ==
    /\ ctask.cls = "MTTask"
    /\ out.op = "get_all_labels"
    /\ ctask.max_targ_v_size = 2
    /\ ctask.files["test"] = << << <<"b">>, <<"a">> >> >>
    /\ out.value = <<START_SYMBOL, "b">>

\* the tokens at the 0-based inclusive positions first..last of a sequence
TokensAt(tokens, first, last) == SubSeq(tokens, first + 1, last + 1)

\* one emitted span field against the target span [i, j) it was made from:
\* inclusive positions i+1..j of the wrapped sequence, the tokens i..j-1 of
\* the text, and neither sentinel
SpanFieldRight(record, span, field, input1) ==
    LET n == Len(record.text)
    IN  (0 <= span[1] /\ span[1] < span[2] /\ span[2] <= n)
            => /\ field = <<span[1] + 1, span[2]>>
               /\ Len(input1) = n + 2
               /\ TokensAt(input1, field[1], field[2]) = TokensAt(record.text, span[1], span[2] - 1)
               /\ 1 <= field[1] /\ field[2] <= n

\* C19: for an edge-probing record with n tokens and a target span [i, j),
\* 0 <= i < j <= n, the emitted span field refers to inclusive positions
\* i+1 through j of the sentinel-wrapped token sequence (length n+2), that
\* is the original tokens i..j-1, and never covers a sentinel.
C19_SpanFieldsShiftedByOne ==
    (ctask.cls = "EdgeProbingTask" /\ out.op = "process_split")
        => LET records == get_split_text(ctask, out.split)
           IN  \A k \in DOMAIN out.value :
                  \A i \in DOMAIN records[k].targets :
                      /\ SpanFieldRight(records[k], records[k].targets[i].span1,
                                        out.value[k].span1s[i], out.value[k].input1)
                      /\ ~ctask.single_sided
                            => SpanFieldRight(records[k], records[k].targets[i].span2,
                                              out.value[k].span2s[i], out.value[k].input1)

C19_Witness ==
    /\ ctask.cls = "EdgeProbingTask"
    /\ ~ctask.single_sided
    /\ out.op = "process_split"
    /\ Len(out.value) = 2
    /\ out.value[2].input1 = <<SOS_TOK, "b", "a", EOS_TOK>>
    /\ out.value[2].span2s = << <<1, 2>>, <<2, 2>> >>

\* C16: for every task variant, each element yielded by get_sentences() is
\* one token list (one sentence), never a pair or tuple of sentences.
C16_EveryYieldedElementIsOneSentence ==
    out.op = "get_sentences"
        => \A i \in DOMAIN out.value : out.value[i].type = "list"

\* C16 for the variants that do not inherit MTTask.get_sentences
C16_OtherVariantsYieldSentences ==
    (out.op = "get_sentences" /\ ctask.cls \notin YieldsItem)
        => \A i \in DOMAIN out.value : out.value[i].type = "list"

\* the file's records that have a target, in file order
EdgeKept(file) == SelectSeq(file, LAMBDA r : "targets" \in DOMAIN r /\ Len(r.targets) > 0)

\* how many records of the file have an empty target list or none
EdgeEmpty(file) ==
    Cardinality({i \in DOMAIN file :
                    IF "targets" \in DOMAIN file[i] THEN Len(file[i].targets) = 0 ELSE TRUE})

\* C6: an edge-probing split is exactly the file's records with a non-empty
\* target list, in file order; get_num_examples of it is the raw record
\* count minus the records with empty or missing targets; and every
\* Instance comes from a record that has a target.
C6_EdgeSplitDropsEmptyTargets ==
    (ctask.cls = "EdgeProbingTask" /\ out.op # "none" /\ out.split # "none")
        => LET file == ctask.files[out.split]
           IN  /\ out.op = "get_split_text" => out.value = EdgeKept(file)
               /\ out.op = "get_num_examples" => out.value = Len(file) - EdgeEmpty(file)
               /\ out.op = "process_split"
                     => /\ Len(out.value) = Len(file) - EdgeEmpty(file)
                        /\ \A i \in DOMAIN out.value :
                              /\ Len(out.value[i].labels) > 0
                              /\ out.value[i].input1
                                    = <<SOS_TOK>> \o EdgeKept(file)[i].text \o <<EOS_TOK>>

\* a train file whose first record has no target and whose second has one
C6_Witness ==
    /\ ctask.cls = "EdgeProbingTask"
    /\ out.op = "get_split_text"
    /\ out.split = "train"
    /\ Len(ctask.files.train) = 2
    /\ EdgeEmpty(ctask.files.train) = 1
    /\ Len(out.value) = 1
    /\ out.value[1] = ctask.files.train[2]

\* C8: every Instance of a language-modeling split has forward target i
\* equal to input (i+1) mod n and backward target i equal to input
\* (i-1) mod n, 0 <= i < n, and both target sequences of the input's
\* length n >= 1 (positions here are 1-based).
C8_TargetsAreRotations ==
    (ctask.cls \in {"LanguageModelingTask", "WikiTextLMTask"} /\ out.op = "process_split")
        => LET sents == get_split_text(ctask, out.split)
           IN  /\ Len(out.value) = Len(sents)
               /\ \A k \in DOMAIN out.value :
                     LET inst == out.value[k]
                         n == Len(inst.input)
                     IN  /\ inst.input = sents[k]
                         /\ n >= 1
                         /\ Len(inst.targs) = n
                         /\ Len(inst.targs_b) = n
                         /\ \A i \in 0..(n - 1) :
                               /\ inst.targs[i + 1] = inst.input[((i + 1) % n) + 1]
                               /\ inst.targs_b[i + 1] = inst.input[((i - 1 + n) % n) + 1]

\* a four-token sentence was turned into an Instance
C8_Witness ==
    /\ ctask.cls \in {"LanguageModelingTask", "WikiTextLMTask"}
    /\ out.op = "process_split"
    /\ \E k \in DOMAIN out.value :
          /\ Len(out.value[k].input) = 4
          /\ out.value[k].targs[4] = SOS_TOK
          /\ out.value[k].targs_b[1] = EOS_TOK

\* ---------------------------------------------------------------------
\* Columnar tasks: process_split over parallel columns
\* ---------------------------------------------------------------------

\* rows of a columnar split
MaxSplitRows == 2

\* A column is a list, or one of the two endless iterators the shared
\* routine puts in: itertools.repeat(None) and itertools.count().
ListCol(items) == [kind |-> "list", items |-> items]

RepeatNone == [kind |-> "repeat", items |-> << >>]

Count == [kind |-> "count", items |-> << >>]

ColAt_Reversed(col, k) ==
    CASE col.kind = "list" -> col.items[Len(col.items) - k + 1]
      [] col.kind = "repeat" -> << >>
      [] col.kind = "count" -> k - 1

\* the k-th value (k = 1, 2, ..) a column delivers; None is delivered as
\* << >>: like the empty list it is falsy, which is all that is asked of it
ColAt(col, k) ==
    CASE col.kind = "list" -> col.items[k]
      [] col.kind = "repeat" -> << >>
      [] col.kind = "count" -> k - 1

\* map(f, *cols) stops with the shortest column
MapLen(cols) ==
    LET lens == {Len(cols[c].items) : c \in {c \in DOMAIN cols : cols[c].kind = "list"}}
    IN  CHOOSE n \in lens : \A m \in lens : n <= m

\* d[key] = value
Put(d, key, value) == (key :> value) @@ d

\* " ".join(sent[1:-1]), kept as the joined words
InnerStr(sent) == SubSeq(sent, 2, Len(sent) - 1)

LabelField(value) == [field |-> "LabelField", value |-> value]

NumericField(value) == [field |-> "NumericField", value |-> value]

\* process_single_pair_task_split._make_instance
_make_instance(input1, input2, labels, idx, classification) ==
    LET d1 == Put(Put(<< >>, "input1", input1), "sent1_str", InnerStr(input1))
        d2 == IF input2 # << >>
              THEN Put(Put(d1, "input2", input2), "sent2_str", InnerStr(input2))
              ELSE d1
        d3 == Put(d2, "labels", IF classification THEN LabelField(labels)
                                ELSE NumericField(labels))
    IN  Put(d3, "idx", LabelField(idx))

\* the counting iterator replaces an index column that is there
process_single_pair_task_split_AlwaysCounts(split, is_pair) ==
    LET s1 == IF ~is_pair THEN [split EXCEPT ![2] = RepeatNone] ELSE split
    IN  Append(SubSeq(s1, 1, 3), Count)

\* process_single_pair_task_split up to the map: the columns mapped over
process_single_pair_task_split(split, is_pair) ==
    LET s1 == IF ~is_pair THEN [split EXCEPT ![2] = RepeatNone] ELSE split
    IN  IF Len(s1) < 4 THEN Append(s1, Count) ELSE s1

\* MultiNLIDiagnosticTask.process_split.create_labels_from_tags
create_labels_from_tags(fields_dict, ix_to_tag_dict, tag_arr, tag_group) ==
    LET is_tag_group == IF Len(tag_arr) # 0 THEN 1 ELSE 0
        d1 == Put(fields_dict, tag_group, LabelField(is_tag_group))
        ixs == DOMAIN ix_to_tag_dict \ {0}
        keys == {tag_group \o "__" \o ix_to_tag_dict[ix] : ix \in ixs}
        present(key) == \E ix \in ixs : /\ key = tag_group \o "__" \o ix_to_tag_dict[ix]
                                        /\ ix \in Range(tag_arr)
    IN  [key \in keys |-> LabelField(IF present(key) THEN 1 ELSE 0)] @@ d1

MultiNLIDiagnosticTask_make_instance_LexSemForAll(tables, input1, input2, label, idx, lex_sem, pr_ar_str, logic, knowledge) ==
    LET d0 == Put(Put(Put(Put(Put(Put(<< >>, "input1", input1), "input2", input2),
                  "labels", LabelField(label)), "idx", LabelField(idx)),
                  "sent1_str", InnerStr(input1)), "sent2_str", InnerStr(input2))
        d1 == create_labels_from_tags(d0, tables["lex_sem"], lex_sem, "lex_sem")
        d2 == create_labels_from_tags(d1, tables["pr_ar_str"], lex_sem, "pr_ar_str")
        d3 == create_labels_from_tags(d2, tables["logic"], lex_sem, "logic")
    IN  create_labels_from_tags(d3, tables["knowledge"], lex_sem, "knowledge")

\* MultiNLIDiagnosticTask.process_split._make_instance
MultiNLIDiagnosticTask_make_instance(tables, input1, input2, label, idx, lex_sem, pr_ar_str, logic, knowledge) ==
    LET d0 == Put(Put(Put(Put(Put(Put(<< >>, "input1", input1), "input2", input2),
                  "labels", LabelField(label)), "idx", LabelField(idx)),
                  "sent1_str", InnerStr(input1)), "sent2_str", InnerStr(input2))
        d1 == create_labels_from_tags(d0, tables["lex_sem"], lex_sem, "lex_sem")
        d2 == create_labels_from_tags(d1, tables["pr_ar_str"], pr_ar_str, "pr_ar_str")
        d3 == create_labels_from_tags(d2, tables["logic"], logic, "logic")
    IN  create_labels_from_tags(d3, tables["knowledge"], knowledge, "knowledge")

SharedRoutineClasses ==
    {"SingleClassificationTask", "PairClassificationTask", "PairRegressionTask",
     "PairOrdinalRegressionTask"}

\* process_split up to the map: the columns the lazy map runs over
process_split_columns(t) ==
    CASE t.cls = "SingleClassificationTask" -> process_single_pair_task_split(t.split, FALSE)
      [] t.cls \in {"PairClassificationTask", "PairRegressionTask",
                    "PairOrdinalRegressionTask"} ->
            process_single_pair_task_split(t.split, TRUE)
      [] t.cls = "MultiNLIDiagnosticTask" -> t.split
      [] t.cls = "TaggingTask" -> <<t.split[1], t.split[3]>>

\* TaggingTask.process_split: Instance({"inputs": x, "targs": t})
TaggingTask_make_instance(x, t) == Put(Put(<< >>, "inputs", x), "targs", t)

\* how many Instances process_split has constructed when it returns: none
\* for a lazy map, the whole list for TaggingTask's list comprehension
BuiltOnReturn(t, cols) == IF t.cls = "TaggingTask" THEN MapLen(cols) ELSE 0

\* the Instance built from the k-th entries of the columns
map_instance(t, cols, k) ==
    IF t.cls = "TaggingTask"
    THEN TaggingTask_make_instance(ColAt(cols[1], k), ColAt(cols[2], k))
    ELSE IF t.cls = "MultiNLIDiagnosticTask"
    THEN MultiNLIDiagnosticTask_make_instance(t.tables,
            ColAt(cols[1], k), ColAt(cols[2], k), ColAt(cols[3], k), ColAt(cols[4], k),
            ColAt(cols[5], k), ColAt(cols[6], k), ColAt(cols[7], k), ColAt(cols[8], k))
    ELSE _make_instance(ColAt(cols[1], k), ColAt(cols[2], k), ColAt(cols[3], k),
                        ColAt(cols[4], k), t.cls \in {"SingleClassificationTask",
                                                      "PairClassificationTask"})

\* --- the splits a columnar task holds -------------------------------------

\* sentences as the row loader leaves them: cut and wrapped
ColSents == {<<SOS_TOK, "a", EOS_TOK>>, <<SOS_TOK, "b", "a", EOS_TOK>>}

ColLabels == {0, 1}

\* values of an index column
ColIdxs == {5, 9}

\* sequences over S of at most n entries
SeqsUpTo(S, n) == UNION {[1..k -> S] : k \in 0..n}

Column(rows, field) == ListCol([k \in DOMAIN rows |-> rows[k][field]])

\* (sents1, sents2, targs) or (sents1, sents2, targs, idxs); a single-input
\* task has nothing in its second column
PairSplits(cls) ==
    LET s2 == IF cls = "SingleClassificationTask" THEN {<< >>} ELSE ColSents
        rows3 == SeqsUpTo([s1 : ColSents, s2 : s2, targ : ColLabels], MaxSplitRows)
        rows4 == SeqsUpTo([s1 : ColSents, s2 : s2, targ : ColLabels, idx : ColIdxs],
                          MaxSplitRows)
        col2(rows) == IF cls = "SingleClassificationTask" THEN ListCol(<< >>)
                      ELSE Column(rows, "s2")
    IN  {<<Column(rows, "s1"), col2(rows), Column(rows, "targ")>> : rows \in rows3}
        \cup
        {<<Column(rows, "s1"), col2(rows), Column(rows, "targ"), Column(rows, "idx")>> :
            rows \in rows4}

\* the tag indices a row may carry in one dimension, given its table
TagArrays(table) ==
    LET ixs == DOMAIN table \ {0}
    IN  {<< >>} \cup {<<ix>> : ix \in ixs}
        \cup {<<p[1], p[2]>> : p \in {q \in ixs \X ixs : q[1] < q[2]}}

\* the eight columns of the diagnostic data
DiagSplits(tables) ==
    LET rows == SeqsUpTo([lex_sem : TagArrays(tables["lex_sem"]),
                          pr_ar_str : TagArrays(tables["pr_ar_str"]),
                          logic : TagArrays(tables["logic"]),
                          knowledge : TagArrays(tables["knowledge"])], MaxSplitRows)
        sent1 == <<SOS_TOK, "a", EOS_TOK>>
        sent2 == <<SOS_TOK, "b", "a", EOS_TOK>>
    IN  {<<ListCol([k \in DOMAIN r |-> sent1]), ListCol([k \in DOMAIN r |-> sent2]),
           ListCol([k \in DOMAIN r |-> k % 2]), ListCol([k \in DOMAIN r |-> k - 1]),
           Column(r, "lex_sem"), Column(r, "pr_ar_str"), Column(r, "logic"),
           Column(r, "knowledge")>> : r \in rows}

\* (sents, [], tag sequences): the splits of a tagging task
TagSplits ==
    LET rows == SeqsUpTo([s1 : ColSents, tags : {<<"T1">>, <<"T2", "T1">>}], MaxSplitRows)
    IN  {<<Column(r, "s1"), ListCol(<< >>), Column(r, "tags")>> : r \in rows}

\* --- state machine -----------------------------------------------------------

\* built counts the Instances constructed so far, pos the Instances handed
\* to the consumer
NoIterator == [state |-> "none", cols |-> << >>, pos |-> 0, built |-> 0]

ColInit ==
    /\ coltask \in
          UNION {{[cls |-> cls, tables |-> << >>, split |-> s] : s \in PairSplits(cls)} :
                    cls \in SharedRoutineClasses}
          \cup
          UNION {{[cls |-> "MultiNLIDiagnosticTask", tables |-> tb, split |-> s] :
                    s \in DiagSplits(tb)} : tb \in DiagTableChoices}
          \cup
          {[cls |-> "TaggingTask", tables |-> << >>, split |-> s] : s \in TagSplits}
    /\ colit = NoIterator
    /\ colinsts = << >>

ColIdle ==
    /\ coltask = [cls |-> "none"]
    /\ colit = NoIterator
    /\ colinsts = << >>

\* instances = task.process_split(split, indexers): the lazy map is made,
\* no Instance yet
ColProcessSplit ==
    /\ colit.state = "none"
    /\ colit' = [state |-> "open", cols |-> process_split_columns(coltask), pos |-> 0,
                 built |-> BuiltOnReturn(coltask, process_split_columns(coltask))]
    /\ colinsts' = << >>
    /\ UNCHANGED <<coltask, colOthers>>

\* next(instances): one more Instance
ColNext ==
    /\ colit.state = "open"
    /\ colit.pos < MapLen(colit.cols)
    /\ colit' = [colit EXCEPT !.pos = @ + 1,
                              !.built = IF @ > colit.pos THEN @ ELSE @ + 1]
    /\ colinsts' = Append(colinsts, map_instance(coltask, colit.cols, colit.pos + 1))
    /\ UNCHANGED <<coltask, colOthers>>

\* next(instances) when a column has run out: StopIteration
ColStop ==
    /\ colit.state = "open"
    /\ colit.pos >= MapLen(colit.cols)
    /\ colit' = [colit EXCEPT !.state = "done"]
    /\ UNCHANGED <<coltask, colinsts, colOthers>>

ColumnsNext == ColProcessSplit \/ ColNext \/ ColStop

\* --- claims about columnar process_split --------------------------------------

\* the rows of the split the task was given
SplitRows == Len(coltask.split[1].items)

\* C10: for a paired-classification split of N rows with equal-length
\* columns, process_split yields exactly N Instances, the k-th built from
\* the k-th entries of input1, input2 and labels: no row is dropped,
\* duplicated or reordered.
C10_OneInstancePerRowInOrder ==
    (coltask.cls \in {"PairClassificationTask", "MultiNLIDiagnosticTask"}
        /\ colit.state # "none")
        => /\ Len(colinsts) = colit.pos
           /\ Len(colinsts) <= SplitRows
           /\ colit.state = "done" => Len(colinsts) = SplitRows
           /\ \A k \in DOMAIN colinsts :
                 /\ colinsts[k]["input1"] = coltask.split[1].items[k]
                 /\ colinsts[k]["input2"] = coltask.split[2].items[k]
                 /\ colinsts[k]["labels"] = LabelField(coltask.split[3].items[k])

\* a two-row split with labels [0, 1] and different sentences has been
\* read to its end
C10_Witness ==
    /\ coltask.cls = "PairClassificationTask"
    /\ colit.state = "done"
    /\ Len(colinsts) = 2
    /\ coltask.split[3].items = <<0, 1>>
    /\ coltask.split[1].items[1] # coltask.split[1].items[2]
    /\ colinsts[1]["labels"].value = 0
    /\ colinsts[2]["labels"].value = 1

\* C25: when a columnar split has no index column (three columns) the k-th
\* Instance produced by process_split carries idx = k (0-based positional
\* enumeration); when an index column is present, the k-th Instance
\* carries the k-th value of that column.
C25_IdxIsPositionOrIndexColumn ==
    (coltask.cls \in SharedRoutineClasses /\ colit.state # "none")
        => \A k \in DOMAIN colinsts :
              colinsts[k]["idx"] = LabelField(IF Len(coltask.split) = 3 THEN k - 1
                                              ELSE coltask.split[4].items[k])

\* C25 witness: a three-column split of two rows, read to its end
C25_Witness ==
    /\ coltask.cls \in SharedRoutineClasses
    /\ Len(coltask.split) = 3
    /\ colit.state = "done"
    /\ Len(colinsts) = 2
    /\ colinsts[2]["idx"] = LabelField(1)

\* C12: process_split is lazy for every variant: when it returns no Instance
\* has been constructed, and each Instance is constructed only when the
\* consumer pulls it, so the Instances constructed are the Instances pulled.
C12_InstancesBuiltOnlyWhenPulled ==
    colit.state # "none" => colit.built = colit.pos

\* C12 for the variants whose process_split is a lazy map
C12_LazyMapsBuildOnlyWhenPulled ==
    (colit.state # "none" /\ coltask.cls # "TaggingTask") => colit.built = colit.pos

\* the column of the diagnostic split that holds a dimension's tag arrays
DiagColumn(d) ==
    CASE d = "lex_sem" -> 5 [] d = "pr_ar_str" -> 6 [] d = "logic" -> 7 [] d = "knowledge" -> 8

\* C9: in the diagnostic task, every Instance carries, for each of the four
\* dimensions, an "any tag present" field that is 0 when the row's tag array
\* of that dimension is empty and 1 when it is not, whatever the arrays of
\* the other dimensions are.
C9_AnyTagFieldFromOwnArray ==
    coltask.cls = "MultiNLIDiagnosticTask"
        => \A k \in DOMAIN colinsts : \A d \in DiagDims :
              colinsts[k][d] = LabelField(
                  IF coltask.split[DiagColumn(d)].items[k] = << >> THEN 0 ELSE 1)

\* one Instance whose row has a lex_sem tag and no logic tag
C9_Witness ==
    /\ coltask.cls = "MultiNLIDiagnosticTask"
    /\ \E k \in DOMAIN colinsts :
          /\ coltask.split[5].items[k] # << >>
          /\ coltask.split[7].items[k] = << >>
          /\ colinsts[k]["lex_sem"].value = 1
          /\ colinsts[k]["logic"].value = 0

\* ---------------------------------------------------------------------
\* Columnar tasks: load_data and truncate
\* ---------------------------------------------------------------------

\* data rows of one delimited file
MaxFileRows == 1

\* the rows the row loader keeps of a file, parsed
TsvRows ==
    {[s1 |-> <<SOS_TOK, "a", EOS_TOK>>, s2 |-> <<SOS_TOK, "b", "a", EOS_TOK>>,
      targ |-> 0, tags |-> <<"T1">>, idx |-> 5],
     [s1 |-> <<SOS_TOK, "b", "a", EOS_TOK>>, s2 |-> <<SOS_TOK, "a", EOS_TOK>>,
      targ |-> 1, tags |-> <<"T2", "T1">>, idx |-> 9]}

\* utils.load_tsv: parallel columns (sent1s, sent2s, targs) or, with an
\* index column asked for, (sent1s, sent2s, targs, idxs); without a second
\* sentence column sent2s stays empty, without a target column targs is 0
load_tsv(rows, has_s2, targ, has_idx) ==
    LET sent1s == Column(rows, "s1")
        sent2s == IF has_s2 THEN Column(rows, "s2") ELSE ListCol(<< >>)
        targs == CASE targ = "label" -> Column(rows, "targ")
                   [] targ = "tags" -> Column(rows, "tags")
                   [] targ = "none" -> ListCol([k \in DOMAIN rows |-> 0])
    IN  IF has_idx THEN <<sent1s, sent2s, targs, Column(rows, "idx")>>
        ELSE <<sent1s, sent2s, targs>>

\* m + mm, on two columns
ColConcat(a, b) == ListCol(a.items \o b.items)

\* [m + mm for m, mm in zip(a, b)]
ZipConcat_FirstColumnOnly(a, b) ==
    [c \in 1..Min(Len(a), Len(b)) |-> IF c = 1 THEN ColConcat(a[c], b[c]) ELSE a[c]]

ZipConcat(a, b) == [c \in 1..Min(Len(a), Len(b)) |-> ColConcat(a[c], b[c])]

\* the files each class reads
LoadFiles(cls) ==
    IF cls = "MultiNLITask"
    THEN {"train", "dev_matched", "dev_mismatched", "test_matched", "test_mismatched",
          "diagnostic"}
    ELSE {"train", "dev", "test"}

SSTTask_load_data(files) ==
    [train |-> load_tsv(files["train"], FALSE, "label", FALSE),
     val |-> load_tsv(files["dev"], FALSE, "label", FALSE),
     test |-> load_tsv(files["test"], FALSE, "none", TRUE)]

QQPTask_load_data(files) ==
    [train |-> load_tsv(files["train"], TRUE, "label", FALSE),
     val |-> load_tsv(files["dev"], TRUE, "label", FALSE),
     test |-> load_tsv(files["test"], TRUE, "none", TRUE)]

MultiNLISingleGenreTask_load_data(files) ==
    [train |-> load_tsv(files["train"], TRUE, "label", TRUE),
     val |-> load_tsv(files["dev"], TRUE, "label", TRUE),
     test |-> load_tsv(files["test"], TRUE, "none", TRUE)]

MultiNLITask_load_data(files) ==
    [train |-> load_tsv(files["train"], TRUE, "label", FALSE),
     val |-> ZipConcat(load_tsv(files["dev_matched"], TRUE, "label", FALSE),
                       load_tsv(files["dev_mismatched"], TRUE, "label", FALSE)),
     test |-> ZipConcat(ZipConcat(load_tsv(files["test_matched"], TRUE, "none", TRUE),
                                  load_tsv(files["test_mismatched"], TRUE, "none", TRUE)),
                        load_tsv(files["diagnostic"], TRUE, "none", TRUE))]

CCGTaggingTask_load_data(files) ==
    [train |-> load_tsv(files["train"], FALSE, "tags", FALSE),
     val |-> load_tsv(files["dev"], FALSE, "tags", FALSE),
     test |-> load_tsv(files["test"], FALSE, "tags", FALSE)]

LoadClasses ==
    {"SSTTask", "CoLATask", "QQPTask", "MultiNLISingleGenreTask", "MultiNLITask",
     "CCGTaggingTask"}

columnar_load_data(cls, files) ==
    CASE cls \in {"SSTTask", "CoLATask"} -> SSTTask_load_data(files)
      [] cls = "QQPTask" -> QQPTask_load_data(files)
      [] cls = "MultiNLISingleGenreTask" -> MultiNLISingleGenreTask_load_data(files)
      [] cls = "MultiNLITask" -> MultiNLITask_load_data(files)
      [] cls = "CCGTaggingTask" -> CCGTaggingTask_load_data(files)

\* utils.truncate: every sentence cut and wrapped with the sentinels
truncate(col, max_seq_len, sos_tok, eos_tok) ==
    ListCol([k \in DOMAIN col.items |->
                <<sos_tok>> \o SubSeq(col.items[k], 1, Min(Len(col.items[k]), max_seq_len - 2))
                \o <<eos_tok>>])

SingleClassificationTask_truncate_Keeps(split, max_seq_len, sos_tok, eos_tok) ==
    <<split[1], split[2]>>

\* SingleClassificationTask.truncate, TaggingTask.truncate, on one split
SingleClassificationTask_truncate(split, max_seq_len, sos_tok, eos_tok) ==
    <<truncate(split[1], max_seq_len, sos_tok, eos_tok), split[2]>>

TruncateClasses == {"SSTTask", "CoLATask", "CCGTaggingTask"}

\* --- state machine -----------------------------------------------------------

NotLoaded == [state |-> "new", splits |-> << >>, max_seq_len |-> 0, raised |-> "none"]

LoadInit ==
    /\ ltask \in UNION {{[cls |-> cls, files |-> f] :
                            f \in [LoadFiles(cls) -> SeqsUpTo(TsvRows, MaxFileRows)]} :
                        cls \in LoadClasses}
    /\ ldata = NotLoaded

LoadIdle ==
    /\ ltask = [cls |-> "none"]
    /\ ldata = NotLoaded

\* self.load_data(path, max_seq_len), called by the constructor
LoadData ==
    /\ ldata.state = "new"
    /\ ldata' = [ldata EXCEPT !.state = "loaded",
                              !.splits = columnar_load_data(ltask.cls, ltask.files)]
    /\ UNCHANGED <<ltask, loadOthers>>

\* task.truncate(max_seq_len, "<SOS>", "<EOS>") of a class that defines it
Truncate ==
    \E max_seq_len \in MaxSeqLens :
        /\ ldata.state = "loaded"
        /\ ltask.cls \in TruncateClasses
        /\ ldata' = [ldata EXCEPT
                        !.state = "truncated",
                        !.max_seq_len = max_seq_len,
                        !.splits = [s \in DOMAIN ldata.splits |->
                                      SingleClassificationTask_truncate(
                                          ldata.splits[s], max_seq_len, SOS_TOK, EOS_TOK)]]
        /\ UNCHANGED <<ltask, loadOthers>>

\* Task.truncate, inherited by the classes that define none
Task_truncate ==
    \E max_seq_len \in MaxSeqLens :
        /\ ldata.state = "loaded"
        /\ ltask.cls \notin TruncateClasses
        /\ ldata' = [ldata EXCEPT !.state = "truncate_failed",
                                  !.max_seq_len = max_seq_len,
                                  !.raised = "NotImplementedError"]
        /\ UNCHANGED <<ltask, loadOthers>>

LoadNext == LoadData \/ Truncate \/ Task_truncate

\* --- claims about load_data and truncate ----------------------------------------

SplitNames == {"train", "val", "test"}

\* the columns of a loaded split that hold one entry per row: all of them,
\* but for the second-sentence column of a single-sentence task
RowColumns(cls, split) ==
    {c \in DOMAIN split : ~(c = 2 /\ cls \in {"SSTTask", "CoLATask", "CCGTaggingTask"})}

C17_TruncatedAndWrapped ==
    /\ ldata.state = "truncated"
          => /\ ltask.cls \in {"SSTTask", "CoLATask", "CCGTaggingTask"}
             /\ \A s \in SplitNames :
                   /\ Len(ldata.splits[s][1].items)
                         = Len(columnar_load_data(ltask.cls, ltask.files)[s][1].items)
                   /\ \A k \in DOMAIN ldata.splits[s][1].items :
                         LET sent == ldata.splits[s][1].items[k]
                         IN  /\ Len(sent) <= ldata.max_seq_len
                             /\ Len(sent) >= 2
                             /\ sent[1] = SOS_TOK
                             /\ sent[Len(sent)] = EOS_TOK
    /\ ldata.state = "truncate_failed"
          => /\ ltask.cls \notin {"SSTTask", "CoLATask", "CCGTaggingTask"}
             /\ ldata.raised = "NotImplementedError"

\* a four-token train sentence was cut to three tokens
C17_Witness ==
    /\ ldata.state = "truncated"
    /\ ldata.max_seq_len = 3
    /\ Len(ltask.files["train"]) = 1
    /\ Len(ltask.files["train"][1].s1) = 4
    /\ Len(ldata.splits["train"][1].items[1]) = 3

\* C29: truncate on a columnar task changes only the text columns: for each
\* of the train, validation and test splits the number of columns, the label
\* column, the index column and the number of rows are the same after
\* truncate as before, so process_split on the truncated split yields the
\* same labels in the same order.
C29_TruncateKeepsLabelsAndIndex ==
    ldata.state = "truncated"
        => \A s \in SplitNames :
              LET before == columnar_load_data(ltask.cls, ltask.files)[s]
                  after == ldata.splits[s]
              IN  /\ Len(after) = Len(before)
                  /\ \A c \in DOMAIN before \ {1} :
                        c \in DOMAIN after /\ after[c] = before[c]
                  /\ Len(after[1].items) = Len(before[1].items)

\* what truncate does keep: two columns, the text column with as many rows as
\* before and the column that followed it
C29_TruncateKeepsTwoColumns ==
    ldata.state = "truncated"
        => \A s \in SplitNames :
              LET before == columnar_load_data(ltask.cls, ltask.files)[s]
                  after == ldata.splits[s]
              IN  /\ Len(after) = 2
                  /\ after[2] = before[2]
                  /\ Len(after[1].items) = Len(before[1].items)

\* ---------------------------------------------------------------------
\* Text files: row-by-row loading, file handles, edge-probing construction
\* ---------------------------------------------------------------------

\* rows of a split file
MaxLines == 2

\* file handles one run may open
MaxHandles == 3

\* the variants that stream a split file under `with open(path)`
FileStreamClasses ==
    {"LanguageModelingTask", "RedditTask", "RedditPairClassificationTask",
     "MTDataPairClassificationTask", "MTTask", "DisSentTask"}

FileClasses == FileStreamClasses \cup {"GroundedSWTask", "EdgeProbingTask"}

\* int(s) succeeds on a field that is one decimal literal
IsInt(field) == field \in {<<"0">>, <<"1">>, <<"3">>}

int(field) == CASE field = <<"0">> -> 0 [] field = <<"1">> -> 1 [] field = <<"3">> -> 3

\* rows a split file may hold: the rows of the task's format, and rows
\* whose label field is not a number
LineChoices(cls) ==
    CASE cls = "DisSentTask" ->
            RowChoices(cls) \cup {<< <<"a">>, <<"b">>, <<"x">> >>, << <<"a">>, << >>, <<"1">> >>}
      [] cls = "GroundedSWTask" ->
            {<< <<"a", "b">>, <<"1">>, <<"3">> >>, << <<"a">>, <<"0">>, <<"3">> >>,
             << <<"a">>, <<"1">> >>, << <<"b">>, <<"x">>, <<"3">> >>}
      [] OTHER -> RowChoices(cls)

LinesUpTo(cls, n) == UNION {[1..k -> LineChoices(cls)] : k \in 0..n}

FileTriples(cls) ==
    {[train |-> tr, val |-> va, test |-> << >>] :
        tr \in LinesUpTo(cls, MaxLines), va \in LinesUpTo(cls, 1)}

\* GroundedSWTask.load_data.get_data, one row:
\* what the loop body does with it
GroundedSWTask_row(items) ==
    IF Len(items) < 3 \/ items[2] = <<"0">>
    THEN [kind |-> "skip", item |-> << >>]
    ELSE IF ~IsInt(items[2]) \/ ~IsInt(items[3])
    THEN [kind |-> "raise", item |-> << >>]
    ELSE [kind |-> "yield", item |-> <<items[1], int(items[2]), int(items[3])>>]

\* DisSentTask.load_data, one row
DisSentTask_row(row, max_seq_len) ==
    IF Len(row) # 3 \/ ~(row[1] # << >> /\ row[2] # << >> /\ row[3] # << >>)
    THEN [kind |-> "skip", item |-> << >>]
    ELSE IF ~IsInt(row[3])
    THEN [kind |-> "raise", item |-> << >>]
    ELSE [kind |-> "yield",
          item |-> <<process_sentence(row[1], max_seq_len, SOS_TOK, EOS_TOK),
                     process_sentence(row[2], max_seq_len, SOS_TOK, EOS_TOK),
                     int(row[3])>>]

\* the loop body of a loader on one row: skip it, yield an item, or raise
RowStep(t, row) ==
    CASE t.cls = "GroundedSWTask" -> GroundedSWTask_row(row)
      [] t.cls = "DisSentTask" -> DisSentTask_row(row, t.max_seq_len)
      [] OTHER ->
            LET got == load_data(t, <<row>>)
            IN  IF got = << >> THEN [kind |-> "skip", item |-> << >>]
                ELSE [kind |-> "yield", item |-> got[1]]

\* GroundedSWTask.load_data.get_data: the whole file, in one loop
get_data(t, file) ==
    LET f[i \in 0..Len(file)] ==
            IF i = 0 THEN [data |-> << >>, raised |-> "none"]
            ELSE LET prev == f[i - 1]
                     step == RowStep(t, file[i])
                 IN  IF prev.raised # "none" \/ step.kind = "skip" THEN prev
                     ELSE IF step.kind = "raise" THEN [prev EXCEPT !.raised = "ValueError"]
                     ELSE [prev EXCEPT !.data = Append(@, step.item)]
    IN  f[Len(file)]

\* GroundedSWTask.load_data: train, val, test in turn; the datasets it
\* opened, what it loaded, and what it raised
GroundedSWTask_load_data(t) ==
    LET f[k \in 0..Len(Splits)] ==
            IF k = 0 THEN [opened |-> << >>, data |-> << >>, raised |-> "none"]
            ELSE LET prev == f[k - 1]
                     got == get_data(t, t.files[Splits[k]])
                 IN  IF prev.raised # "none" THEN prev
                     ELSE [opened |-> Append(prev.opened, Splits[k]),
                           data |-> Append(prev.data, got.data),
                           raised |-> got.raised]
    IN  f[Len(Splits)]

\* count_examples: one count per split, every line counted
count_examples(t) == [k \in DOMAIN Splits |-> Len(t.files[Splits[k]])]

\* Wiki103Classification.count_examples: pair sentence # = sent # - 1
Wiki103Classification_count_examples(t) ==
    [k \in DOMAIN Splits |-> Len(t.files[Splits[k]]) - 1]

\* self.example_counts after task.count_examples(), by split
example_counts(t) ==
    LET counts == IF t.cls = "Wiki103Classification"
                  THEN Wiki103Classification_count_examples(t)
                  ELSE count_examples(t)
    IN  [split \in Range(Splits) |->
            counts[CHOOSE k \in DOMAIN Splits : Splits[k] = split]]

\* total_ctr counts the records after the skipped ones only
_stream_records_log_TotalOfKept(file) ==
    LET kept == Len(_stream_records(file))
        skip_ctr == Len(file) - kept
    IN  [read |-> kept - skip_ctr, skip |-> skip_ctr, total |-> kept]

\* EdgeProbingTask._stream_records: the counters it logs after the pass
_stream_records_log(file) ==
    LET f[i \in 0..Len(file)] ==
            IF i = 0 THEN [total_ctr |-> 0, skip_ctr |-> 0]
            ELSE [total_ctr |-> f[i - 1].total_ctr + 1,
                  skip_ctr |-> f[i - 1].skip_ctr + (IF NoTargets(file[i]) THEN 1 ELSE 0)]
        ctr == f[Len(file)]
    IN  [read |-> ctr.total_ctr - ctr.skip_ctr, skip |-> ctr.skip_ctr, total |-> ctr.total_ctr]

NotConstructed ==
    [state |-> "failed", raised |-> "AssertionError", iters |-> << >>, opened |-> << >>,
     log |-> << >>]

\* the splits are loaded before the arguments are checked
EdgeProbingTask_construct_LoadsFirst(label_file, files_by_split, files) ==
    IF files_by_split = "None" THEN NotConstructed
    ELSE IF label_file = "None"
    THEN [NotConstructed EXCEPT !.opened = Splits]
    ELSE [state |-> "done", raised |-> "none",
          iters |-> EdgeProbingTask_load_data(files),
          opened |-> Splits \o <<label_file>>,
          log |-> [k \in DOMAIN Splits |-> _stream_records_log(files[Splits[k]])]]

\* EdgeProbingTask.__init__: the two asserts, then load_data over the
\* split files, then the label file
EdgeProbingTask_construct(label_file, files_by_split, files) ==
    IF label_file = "None" THEN NotConstructed
    ELSE IF files_by_split = "None" THEN NotConstructed
    ELSE [state |-> "done", raised |-> "none",
          iters |-> EdgeProbingTask_load_data(files),
          opened |-> Splits \o <<label_file>>,
          log |-> [k \in DOMAIN Splits |-> _stream_records_log(files[Splits[k]])]]

\* a handle opened under `with`, and one opened by a bare open(...); owner
\* is the state of the operation that opened it: "running", "suspended"
\* (a generator left at a yield) or "finished"
ScopedHandle(path, state, owner) ==
    [path |-> path, scoped |-> TRUE, state |-> state, owner |-> owner]

BareHandle(path) == [path |-> path, scoped |-> FALSE, state |-> "open", owner |-> "finished"]

\* leaving the `with` block closes the handle
ExitWith(h) == [h EXCEPT !.state = "closed", !.owner = "finished"]

NoOp ==
    [op |-> "none", split |-> "none", state |-> "none", pos |-> 0, items |-> << >>,
     raised |-> "none", handle |-> 0, log |-> << >>]

FileInit ==
    /\ ftask \in
          UNION {{[cls |-> cls, max_seq_len |-> 4, min_seq_len |-> 0, files |-> files,
                   label_file |-> lf, files_by_split |-> fbs] :
                      files \in FileTriples(cls),
                      lf \in IF cls = "EdgeProbingTask" THEN {"None", "labels.txt"} ELSE {"None"},
                      fbs \in IF cls = "EdgeProbingTask" THEN {"None", "given"} ELSE {"given"}} :
                 cls \in FileClasses}
    /\ fop = NoOp
    /\ handles = << >>

FileIdle ==
    /\ ftask = [cls |-> "none"]
    /\ fop = NoOp
    /\ handles = << >>

\* the consumer pulls the first item of get_split_text(split): the
\* generator enters `with open(path)`
StreamOpen ==
    \E k \in DOMAIN Splits :
        /\ ftask.cls \in FileStreamClasses
        /\ fop.state # "reading"
        /\ Len(handles) < MaxHandles
        /\ handles' = Append(handles, ScopedHandle(Splits[k], "open", "running"))
        /\ fop' = [NoOp EXCEPT !.op = "stream", !.split = Splits[k], !.state = "reading",
                               !.handle = Len(handles) + 1]
        /\ UNCHANGED <<ftask, fileOthers>>

\* the generator reads the next row: it skips the row, yields an item,
\* raises, or reaches the end of the file; leaving the `with` block closes
\* the handle
StreamRow ==
    /\ fop.op = "stream"
    /\ fop.state = "reading"
    /\ LET file == ftask.files[fop.split]
           step == RowStep(ftask, file[fop.pos + 1])
       IN  IF fop.pos = Len(file)
           THEN /\ fop' = [fop EXCEPT !.state = "done"]
                /\ handles' = [handles EXCEPT ![fop.handle] = ExitWith(@)]
           ELSE IF step.kind = "raise"
           THEN /\ fop' = [fop EXCEPT !.state = "failed", !.raised = "ValueError"]
                /\ handles' = [handles EXCEPT ![fop.handle] = ExitWith(@)]
           ELSE /\ fop' = [fop EXCEPT !.pos = @ + 1,
                                      !.items = IF step.kind = "yield"
                                                THEN Append(@, step.item) ELSE @]
                /\ UNCHANGED handles
    /\ UNCHANGED <<ftask, fileOthers>>

\* the consumer stops pulling before the end: the generator stays
\* suspended inside its `with` block
StreamAbandon ==
    /\ fop.op = "stream"
    /\ fop.state = "reading"
    /\ fop.pos > 0
    /\ fop' = [fop EXCEPT !.state = "abandoned"]
    /\ handles' = [handles EXCEPT ![fop.handle].owner = "suspended"]
    /\ UNCHANGED <<ftask, fileOthers>>

\* task.count_examples(): open(split_path) for every split, never closed
CountExamples ==
    /\ ftask.cls \in FileStreamClasses
    /\ fop.state # "reading"
    /\ Len(handles) + Len(Splits) <= MaxHandles
    /\ fop' = [NoOp EXCEPT !.op = "count_examples", !.state = "done",
                           !.items = count_examples(ftask)]
    /\ handles' = handles \o [k \in DOMAIN Splits |-> BareHandle(Splits[k])]
    /\ UNCHANGED <<ftask, fileOthers>>

\* GroundedSWTask.__init__ -> load_data: f = open(...) for every dataset,
\* never closed
GroundedSWLoad ==
    /\ ftask.cls = "GroundedSWTask"
    /\ fop.op = "none"
    /\ LET got == GroundedSWTask_load_data(ftask)
       IN  /\ fop' = [NoOp EXCEPT !.op = "load_data",
                                  !.state = IF got.raised = "none" THEN "done" ELSE "failed",
                                  !.items = got.data, !.raised = got.raised]
           /\ handles' = [k \in DOMAIN got.opened |-> BareHandle(got.opened[k])]
    /\ UNCHANGED <<ftask, fileOthers>>

\* EdgeProbingTask(path, max_seq_len, name, label_file, files_by_split)
EdgeConstruct ==
    /\ ftask.cls = "EdgeProbingTask"
    /\ fop.op = "none"
    /\ LET got == EdgeProbingTask_construct(ftask.label_file, ftask.files_by_split, ftask.files)
       IN  /\ fop' = [NoOp EXCEPT !.op = "init", !.state = got.state, !.items = got.iters,
                                  !.raised = got.raised, !.log = got.log]
           /\ handles' = [k \in DOMAIN got.opened |-> ScopedHandle(got.opened[k], "closed", "finished")]
    /\ UNCHANGED <<ftask, fileOthers>>

\* the runtime finalizes an object nothing refers to any more: a file
\* object that was never closed, or a suspended generator (its `with`
\* block then exits).  When this happens is up to the interpreter.
Finalize ==
    \E i \in DOMAIN handles :
        /\ handles[i].state = "open"
        /\ handles[i].owner # "running"
        /\ handles' = [handles EXCEPT ![i] = ExitWith(@)]
        /\ UNCHANGED <<ftask, fop, fileOthers>>

FileNext ==
    \/ StreamOpen
    \/ StreamRow
    \/ StreamAbandon
    \/ CountExamples
    \/ GroundedSWLoad
    \/ EdgeConstruct
    \/ Finalize

\* --- claims about loading from files ---------------------------------------

\* C13: in every streaming row loader a malformed row is skipped and the
\* rows after it are still loaded: no row's content makes loading fail.
C13_NoRowFailsLoading ==
    fop.op \in {"stream", "load_data"} => fop.state # "failed"

\* C13 for the loaders that convert no field to a number
C13_TextOnlyLoadersNeverFail ==
    (fop.op = "stream" /\ ftask.cls # "DisSentTask") => fop.state # "failed"

\* C26: for every streaming task variant, after count_examples the value
\* example_counts[split] equals the number of Instances that
\* process_split(get_split_text(split)) yields for that split, including
\* when the file has blank, malformed or filtered lines and when instances
\* are built from consecutive sentence pairs.
C26_ExampleCountIsInstanceCount ==
    (ctask.cls \in StreamClasses /\ out.op = "process_split")
        => example_counts(ctask)[out.split] = Len(out.value)

\* C26 for the variants that build one Instance per loaded item, on files
\* of which every line is loaded
C26_CountRightWhenEveryLineLoads ==
    (/\ ctask.cls \in StreamClasses \ {"Wiki103Classification", "Wiki103Seq2SeqTask"}
     /\ out.op = "process_split"
     /\ Len(get_split_text(ctask, out.split)) = Len(ctask.files[out.split]))
        => example_counts(ctask)[out.split] = Len(out.value)

\* C15: every file handle opened by a load, a count_examples call or a
\* streaming pass is released when that operation ends: a handle is open
\* only while the pass that opened it is still reading.
C15_NoHandleOutlivesItsOperation ==
    \A i \in DOMAIN handles :
        handles[i].state = "open" => handles[i].owner = "running"

\* C15 for the passes that run to the end of the file or fail on a row:
\* the handle of a `with` block is open only while its generator is
\* running or suspended
C15_ScopedHandlesReleasedAtExit ==
    \A i \in DOMAIN handles :
        (handles[i].scoped /\ handles[i].state = "open")
            => handles[i].owner \in {"running", "suspended"}

\* C14: constructing an edge-probing task without a label file or without
\* a split-to-file mapping fails at construction, before any data file is
\* opened and before any split is loaded, and yields no task.
C14_MissingArgumentFailsBeforeLoading ==
    (fop.op = "init" /\ (ftask.label_file = "None" \/ ftask.files_by_split = "None"))
        => /\ fop.state = "failed"
           /\ fop.raised = "AssertionError"
           /\ handles = << >>
           /\ fop.items = << >>

C14_Witness ==
    /\ fop.op = "init"
    /\ ftask.label_file = "None"
    /\ ftask.files_by_split = "given"
    /\ Len(ftask.files["train"]) = 2
    /\ fop.state = "failed"

\* C18: after a complete pass of edge-probing record loading over a file
\* the logged counters satisfy Read + Skip = Total, Total being the number
\* of records in the file, Skip the number dropped for empty or missing
\* targets, and Read the number of records yielded.
C18_ReadPlusSkipIsTotal ==
    (fop.op = "init" /\ fop.state = "done")
        => \A k \in DOMAIN Splits :
              LET file == ftask.files[Splits[k]]
                  log == fop.log[k]
              IN  /\ log.read + log.skip = log.total
                  /\ log.total = Len(file)
                  /\ log.skip = Cardinality({i \in DOMAIN file : NoTargets(file[i])})
                  /\ log.read = Len(fop.items[Splits[k]])

C18_Witness ==
    /\ fop.op = "init"
    /\ fop.state = "done"
    /\ fop.log[1] = [read |-> 1, skip |-> 1, total |-> 2]

\* ---------------------------------------------------------------------
\* Import of the module: its decorators fill REGISTRY
\* ---------------------------------------------------------------------

\* **kw of the edge-probing registrations, the dictionaries kept as "dict"
EdgeKw == [label_file |-> "labels.txt", files_by_split |-> "dict", is_symmetric |-> "False"]

EdgeKwSingleSided == [label_file |-> "labels.txt", files_by_split |-> "dict", single_sided |-> "True"]

\* one @register_task line: the class it decorates and its arguments
Decorator(name, cls, rel_path, kw) == [name |-> name, cls |-> cls, rel_path |-> rel_path, kw |-> kw]

\* the @register_task lines of the module in the order they are applied:
\* class by class, the decorators of one class from the bottom up
ModuleDecorators ==
    <<
      Decorator("edges-ccg-parse", "EdgeProbingTask", "edges/ccg_parse", EdgeKwSingleSided),
      Decorator("edges-ccg-tag", "EdgeProbingTask", "edges/ccg_tag", EdgeKwSingleSided),
      Decorator("edges-constituent-ontonotes", "EdgeProbingTask", "edges/ontonotes-constituents", EdgeKwSingleSided),
      Decorator("edges-constituent-ptb", "EdgeProbingTask", "edges/ptb-membership", EdgeKwSingleSided),
      Decorator("edges-dep-labeling-ewt", "EdgeProbingTask", "edges/dep_ewt", EdgeKw),
      Decorator("edges-dep-labeling", "EdgeProbingTask", "edges/dep", EdgeKw),
      Decorator("edges-ner-ontonotes", "EdgeProbingTask", "edges/ontonotes-ner", EdgeKwSingleSided),
      Decorator("edges-ner-conll2003", "EdgeProbingTask", "edges/ner_conll2003", EdgeKwSingleSided),
      Decorator("edges-coref-ontonotes-conll", "EdgeProbingTask", "edges/ontonotes-coref-conll", EdgeKw),
      Decorator("edges-coref-ontonotes", "EdgeProbingTask", "edges/ontonotes-coref", EdgeKw),
      Decorator("edges-dpr", "EdgeProbingTask", "edges/dpr", EdgeKw),
      Decorator("edges-spr2", "EdgeProbingTask", "edges/spr2", EdgeKw),
      Decorator("edges-spr1", "EdgeProbingTask", "edges/spr1", EdgeKw),
      Decorator("edges-srl-conll2012", "EdgeProbingTask", "edges/srl_conll2012", EdgeKw),
      Decorator("edges-srl-conll2005", "EdgeProbingTask", "edges/srl_conll2005", EdgeKw),
      Decorator("wiki103", "WikiText103LMTask", "WikiText103/", << >>),
      Decorator("bwb", "BWBLMTask", "BWB/", << >>),
      Decorator("sst", "SSTTask", "SST-2/", << >>),
      Decorator("reddit_softmax", "RedditTask", "Reddit_2008/", << >>),
      Decorator("reddit_13G", "RedditTask", "Reddit_13G/", << >>),
      Decorator("reddit_3.4G", "RedditTask", "Reddit_3.4G/", << >>),
      Decorator("reddit_dummy", "RedditTask", "Reddit_2008_TestSample/", << >>),
      Decorator("reddit", "RedditTask", "Reddit_2008/", << >>),
      Decorator("reddit_pair_classif_3.4G", "RedditPairClassificationTask", "Reddit_3.4G/", << >>),
      Decorator("reddit_pair_classif_dummy", "RedditPairClassificationTask", "Reddit_2008_TestSample/", << >>),
      Decorator("reddit_pair_classif", "RedditPairClassificationTask", "Reddit_2008/", << >>),
      Decorator("mt_pair_classif_dummy", "MTDataPairClassificationTask", "wmt14_en_de_mini/", << >>),
      Decorator("mt_pair_classif", "MTDataPairClassificationTask", "wmt14_en_de_local/", << >>),
      Decorator("cola", "CoLATask", "CoLA/", << >>),
      Decorator("qqp", "QQPTask", "QQP/", << >>),
      Decorator("qqp-alt", "QQPAltTask", "QQP/", << >>),
      Decorator("mnli-fiction", "MultiNLIFictionTask", "MNLI/", << >>),
      Decorator("mnli-slate", "MultiNLISlateTask", "MNLI/", << >>),
      Decorator("mnli-government", "MultiNLIGovernmentTask", "MNLI/", << >>),
      Decorator("mnli-telephone", "MultiNLITelephoneTask", "MNLI/", << >>),
      Decorator("mnli-travel", "MultiNLITravelTask", "MNLI/", << >>),
      Decorator("mrpc", "MRPCTask", "MRPC/", << >>),
      Decorator("sts-b", "STSBTask", "STS-B/", << >>),
      Decorator("sts-b-alt", "STSBAltTask", "STS-B/", << >>),
      Decorator("snli", "SNLITask", "SNLI/", << >>),
      Decorator("mnli", "MultiNLITask", "MNLI/", << >>),
      Decorator("mnli-diagnostic", "MultiNLIDiagnosticTask", "MNLI/", << >>),
      Decorator("nli-prob", "NLITypeProbingTask", "NLI-Prob/", << >>),
      Decorator("nli-prob-negation", "NLITypeProbingTaskNeg", "NLI-Prob/", << >>),
      Decorator("nli-prob-prepswap", "NLITypeProbingTaskPrepswap", "NLI-Prob/", << >>),
      Decorator("nps", "NPSTask", "nps/", << >>),
      Decorator("nli-alt", "NLITypeProbingAltTask", "NLI-Prob/", << >>),
      Decorator("mnli-alt", "MultiNLIAltTask", "MNLI/", << >>),
      Decorator("rte", "RTETask", "RTE/", << >>),
      Decorator("qnli", "QNLITask", "QNLI/", << >>),
      Decorator("qnli-alt", "QNLIAltTask", "QNLI/", << >>),
      Decorator("wnli", "WNLITask", "WNLI/", << >>),
      Decorator("joci", "JOCITask", "JOCI/", << >>),
      Decorator("wmt_debug", "MTDebug", "wmt_debug/", [max_targ_v_size |-> "5000"]),
      Decorator("wmt17_en_ru", "MTTaskEnRu", "wmt17_en_ru/", [max_targ_v_size |-> "20000"]),
      Decorator("wmt14_en_de", "MTTaskEnDe", "wmt14_en_de/", [max_targ_v_size |-> "20000"]),
      Decorator("reddit_s2s_dummy", "RedditSeq2SeqTask", "Reddit_2008_TestSample/", [max_targ_v_size |-> "0"]),
      Decorator("reddit_s2s_3.4G", "RedditSeq2SeqTask", "Reddit_3.4G/", [max_targ_v_size |-> "0"]),
      Decorator("reddit_s2s", "RedditSeq2SeqTask", "Reddit_2008/", [max_targ_v_size |-> "0"]),
      Decorator("wiki103_classif", "Wiki103Classification", "WikiText103/", << >>),
      Decorator("wiki103_s2s", "Wiki103Seq2SeqTask", "WikiText103/", [max_targ_v_size |-> "0"]),
      Decorator("dissentwiki", "DisSentTask", "DisSent/wikitext/", << >>),
      Decorator("dissentwikifullbig", "DisSentWikiBigFullTask", "DisSent/wikitext/", << >>),
      Decorator("weakgrounded", "WeakGroundedTask", "mscoco/weakgrounded/", << >>),
      Decorator("grounded", "GroundedTask", "mscoco/grounded/", << >>),
      Decorator("groundedsw", "GroundedSWTask", "mscoco/grounded", << >>),
      Decorator("recast-puns", "RecastPunTask", "DNC/recast_puns_data", << >>),
      Decorator("recast-ner", "RecastNERTask", "DNC/recast_ner_data", << >>),
      Decorator("recast-verbnet", "RecastVerbnetTask", "DNC/recast_verbnet_data", << >>),
      Decorator("recast-verbcorner", "RecastVerbcornerTask", "DNC/recast_verbcorner_data", << >>),
      Decorator("recast-sentiment", "RecastSentimentTask", "DNC/recast_sentiment_data", << >>),
      Decorator("recast-factuality", "RecastFactualityTask", "DNC/recast_factuality_data", << >>),
      Decorator("recast-winogender", "RecastWinogenderTask", "DNC/manually-recast-winogender", << >>),
      Decorator("recast-lexicosyntax", "RecastLexicosynTask", "DNC/lexicosyntactic_recasted", << >>),
      Decorator("recast-kg", "RecastKGTask", "DNC/kg-relations", << >>),
      Decorator("ccg", "CCGTaggingTask", "CCG/", << >>) >>

\* __init__ of a registered class (its own or the inherited one): the
\* parameters after self, and those of them that have no default
InitSignature(cls) ==
    CASE cls \in {"MTDebug", "MTTaskEnDe", "MTTaskEnRu", "RedditSeq2SeqTask",
                      "Wiki103Seq2SeqTask"} ->
            [params |-> <<"path", "max_seq_len", "max_targ_v_size", "name">>,
             required |-> {"path", "max_seq_len", "max_targ_v_size"}]
      [] cls \in {"NLITypeProbingAltTask", "NLITypeProbingTask",
                      "NLITypeProbingTaskNeg", "NLITypeProbingTaskPrepswap", "NPSTask"} ->
            [params |-> <<"path", "max_seq_len", "name", "probe_path">>,
             required |-> {"path", "max_seq_len"}]
      [] cls = "DisSentTask" ->
            [params |-> <<"path", "max_seq_len", "prefix", "name">>,
             required |-> {"path", "max_seq_len", "prefix"}]
      [] cls = "EdgeProbingTask" ->
            [params |-> <<"path", "max_seq_len", "name", "label_file", "files_by_split", "is_symmetric", "single_sided">>,
             required |-> {"path", "max_seq_len", "name"}]
      [] cls = "WeakGroundedTask" ->
            [params |-> <<"path", "max_seq_len", "n_classes", "name">>,
             required |-> {"path", "max_seq_len", "n_classes"}]
      [] OTHER ->
            [params |-> <<"path", "max_seq_len", "name">>,
             required |-> {"path", "max_seq_len"}]

\* the construction options of a registry entry: entry[2] of a triple,
\* none for a pair
EntryKw(entry) == IF Len(entry) = 3 THEN entry[3] ELSE << >>

\* cls(path, max_seq_len, name=name, **kw) as the docstring of register_task
\* describes it: the parameters the call leaves without a value
MissingArguments(entry) ==
    InitSignature(entry[1]).required \ ({"path", "max_seq_len", "name"} \cup DOMAIN EntryKw(entry))

\* the options the class's __init__ does not take
UnexpectedArguments(entry) == DOMAIN EntryKw(entry) \ Range(InitSignature(entry[1]).params)

construct_from_entry(entry) ==
    IF MissingArguments(entry) # {} \/ UnexpectedArguments(entry) # {}
    THEN "TypeError" ELSE "constructed"

NoBuilt == [made |-> FALSE, name |-> "none", outcome |-> "none"]

ImportInit == built = NoBuilt

ImportIdle == built = NoBuilt

\* the next @register_task line of the module is applied
ImportDecorator ==
    /\ Len(regLog) < Len(ModuleDecorators)
    /\ LET d == ModuleDecorators[Len(regLog) + 1]
       IN  /\ REGISTRY' = [n \in (DOMAIN REGISTRY) \cup {d.name} |->
                             IF n = d.name THEN RegEntry(d.cls, d.rel_path, d.kw)
                             ELSE REGISTRY[n]]
           /\ regLog' = Append(regLog, d)
           /\ lastReturned' = d.cls
    /\ UNCHANGED <<built, importOthers>>

\* a registered task is constructed from its entry
ConstructFromEntry ==
    \E name \in DOMAIN REGISTRY :
        /\ built' = [made |-> TRUE, name |-> name,
                     outcome |-> construct_from_entry(REGISTRY[name])]
        /\ UNCHANGED <<regVars, importOthers>>

ImportNext == ImportDecorator \/ ConstructFromEntry

\* --- claims about the registered tasks -------------------------------------

\* C27: for every name in the registry, the entry's construction options
\* supply every constructor parameter of the registered implementation that
\* has no default, other than path, max_seq_len and name, so that every
\* registered task can be constructed from its registry entry.
C27_EntriesSupplyRequiredParameters ==
    /\ \A name \in DOMAIN REGISTRY : MissingArguments(REGISTRY[name]) = {}
    /\ built.made => built.outcome = "constructed"

\* C27 for every name but the two whose class takes a parameter that the
\* decorator does not give
C27_OtherEntriesSupplyRequiredParameters ==
    /\ \A name \in DOMAIN REGISTRY \ {"dissentwiki", "weakgrounded"} :
          MissingArguments(REGISTRY[name]) = {}
    /\ (built.made /\ built.name \notin {"dissentwiki", "weakgrounded"})
          => built.outcome = "constructed"

\* ---------------------------------------------------------------------
\* EdgeProbingTask.merge_preds: predictions merged into a record, in place
\* ---------------------------------------------------------------------

\* targets of one record
MaxTargets == 2

PredKeys == {"proba", "loss"}

\* a prediction value: a list with one element per target, or a number
ListVal(items) == [type |-> "list", items |-> items]

FloatVal(v) == [type |-> "float", items |-> <<v>>]

PredVals == {ListVal([i \in 1..k |-> 10 * i]) : k \in 0..MaxTargets} \cup {FloatVal(7)}

\* the preds dictionaries, as their items in insertion order
PredsChoices ==
    {<< >>}
    \cup {<<[key |-> k, val |-> v]>> : k \in PredKeys, v \in PredVals}
    \cup UNION {{<<[key |-> k1, val |-> v1], [key |-> k2, val |-> v2]>> :
                    k2 \in PredKeys \ {k1}, v1 \in PredVals, v2 \in PredVals} :
                 k1 \in PredKeys}

\* the records read from an edge probing file
RecordChoices ==
    {[text |-> <<"a", "b">>, targets |-> ts] :
        ts \in SeqsUpTo({EdgeTarget1, EdgeTarget2}, MaxTargets)}

\* EdgeProbingTask.merge_preds: the record as the call leaves it, and the
\* error it raises; the record is changed in place, statement by statement
merge_preds(rec, preds) ==
    LET r0 == Put(rec, "preds", << >>)
        r1 == Put(r0, "targets",
                  [i \in DOMAIN r0["targets"] |-> Put(r0["targets"][i], "preds", << >>)])
        RECURSIVE Items(_, _)
        Items(r, k) ==
            IF k > Len(preds) THEN [record |-> r, raised |-> "none"]
            ELSE LET key == preds[k].key
                     val == preds[k].val
                 IN  IF val.type = "list"
                     THEN IF Len(val.items) # Len(r["targets"])
                          THEN [record |-> r, raised |-> "AssertionError"]
                          ELSE Items(Put(r, "targets",
                                         [i \in DOMAIN r["targets"] |->
                                            Put(r["targets"][i], "preds",
                                                Put(r["targets"][i]["preds"], key,
                                                    val.items[i]))]),
                                     k + 1)
                     ELSE Items(Put(r, "preds", Put(r["preds"], key, val)), k + 1)
    IN  Items(r1, 1)

NoMerge == [made |-> FALSE, preds |-> << >>, before |-> << >>, raised |-> "none"]

MergeInit ==
    /\ mrecord \in RecordChoices
    /\ merged = NoMerge

MergeIdle ==
    /\ mrecord = [text |-> << >>, targets |-> << >>]
    /\ merged = NoMerge

\* EdgeProbingTask.merge_preds(record, preds), on a record that may hold the
\* predictions of an earlier call
MergePreds ==
    \E preds \in PredsChoices :
        LET r == merge_preds(mrecord, preds) IN
        /\ mrecord' = r.record
        /\ merged' = [made |-> TRUE, preds |-> preds, before |-> mrecord,
                      raised |-> r.raised]
        /\ UNCHANGED mergeOthers

MergeNext == MergePreds

\* --- claims about merge_preds ------------------------------------------------

\* every list-valued prediction has one element per target
PredsAligned(rec, preds) ==
    \A k \in DOMAIN preds :
        preds[k].val.type = "list" => Len(preds[k].val.items) = Len(rec["targets"])

\* the i-th element of every list-valued prediction is in the i-th target's
\* preds and every other prediction in the record's top-level preds
PredsAttached(rec, preds) ==
    \A k \in DOMAIN preds :
        LET key == preds[k].key
            val == preds[k].val
        IN  IF val.type = "list"
            THEN \A i \in DOMAIN rec["targets"] :
                    /\ key \in DOMAIN rec["targets"][i]["preds"]
                    /\ rec["targets"][i]["preds"][key] = val.items[i]
            ELSE /\ key \in DOMAIN rec["preds"]
                 /\ rec["preds"][key] = val

\* C30: merge_preds(record, preds) attaches the i-th element of every
\* list-valued prediction to the i-th target's preds and every non-list
\* prediction to the record's top-level preds, and when a list-valued
\* prediction's length differs from the number of targets it fails leaving
\* the record exactly as it was before the call.
C30_MergeAttachesOrLeavesRecordUntouched ==
    merged.made =>
        IF PredsAligned(merged.before, merged.preds)
        THEN merged.raised = "none" /\ PredsAttached(mrecord, merged.preds)
        ELSE merged.raised = "AssertionError" /\ mrecord = merged.before

\* C30 without the record being left as it was: aligned predictions are
\* attached, and a misaligned list fails the call, which by then has emptied
\* the record's and every target's preds and attached the predictions that
\* came before the misaligned one
C30_MergeAttachesOrFails ==
    merged.made =>
        IF PredsAligned(merged.before, merged.preds)
        THEN merged.raised = "none" /\ PredsAttached(mrecord, merged.preds)
        ELSE /\ merged.raised = "AssertionError"
             /\ "preds" \in DOMAIN mrecord
             /\ \A i \in DOMAIN mrecord["targets"] :
                   "preds" \in DOMAIN mrecord["targets"][i]
             /\ mrecord["text"] = merged.before["text"]
             /\ Len(mrecord["targets"]) = Len(merged.before["targets"])

\* ---------------------------------------------------------------------
\* Specifications
\* ---------------------------------------------------------------------

InitRegistry ==
    RegInit /\ MetIdle /\ CorpusIdle /\ ColIdle /\ LoadIdle /\ FileIdle /\ ImportIdle
    /\ MergeIdle

SpecRegistry == InitRegistry /\ [][RegNext]_vars

InitMetrics ==
    MetInit /\ RegIdle /\ CorpusIdle /\ ColIdle /\ LoadIdle /\ FileIdle /\ ImportIdle
    /\ MergeIdle

SpecMetrics == InitMetrics /\ [][MetNext]_vars

InitCorpus ==
    CorpusInit /\ RegIdle /\ MetIdle /\ ColIdle /\ LoadIdle /\ FileIdle /\ ImportIdle
    /\ MergeIdle

SpecCorpus == InitCorpus /\ [][CorpusNext]_vars

InitColumns ==
    ColInit /\ RegIdle /\ MetIdle /\ CorpusIdle /\ LoadIdle /\ FileIdle /\ ImportIdle
    /\ MergeIdle

SpecColumns == InitColumns /\ [][ColumnsNext]_vars

InitLoad ==
    LoadInit /\ RegIdle /\ MetIdle /\ CorpusIdle /\ ColIdle /\ FileIdle /\ ImportIdle
    /\ MergeIdle

SpecLoad == InitLoad /\ [][LoadNext]_vars

InitFiles ==
    FileInit /\ RegIdle /\ MetIdle /\ CorpusIdle /\ ColIdle /\ LoadIdle /\ ImportIdle
    /\ MergeIdle

SpecFiles == InitFiles /\ [][FileNext]_vars

InitImport ==
    RegInit /\ ImportInit /\ MetIdle /\ CorpusIdle /\ ColIdle /\ LoadIdle /\ FileIdle
    /\ MergeIdle

SpecImport == InitImport /\ [][ImportNext]_vars

InitMerge ==
    MergeInit /\ RegIdle /\ ImportIdle /\ MetIdle /\ CorpusIdle /\ ColIdle /\ LoadIdle
    /\ FileIdle

SpecMerge == InitMerge /\ [][MergeNext]_vars

Init == InitRegistry

Next == RegNext

Spec == Init /\ [][Next]_vars

====
